---- MODULE Spec2Model ----
(***************************************************************************)
(* Faultline: the IR refinement pass (DiagnosticRefiner, IRAnalyzer,      *)
(* ConfidenceModel), the IR driver of main() (cache key, bounded parallel  *)
(* emission, sequential collect/parse) and the post passes of main()       *)
(* (calibration gate, suppressed/severity/tier filter, final sort).        *)
(*                                                                         *)
(* Conventions.  Confidence is kept in hundredths (0.85 is 85).  A         *)
(* qualified name "ns::Foo::bar" is the sequence <<"ns","Foo","bar">>, a   *)
(* path "src/a.cpp" the sequence <<"src","a.cpp">>, the empty string the   *)
(* empty sequence.  The structural-evidence string "k1=v1; k2=v2" is the   *)
(* sequence of its key/value fields, an escalation note a record of its    *)
(* fixed text and the numbers printed into it.                             *)
(***************************************************************************)
EXTENDS Integers, Sequences, FiniteSets, TLC

VARIABLES
    \* --- refiner under repeated application (SpecRefiner) ---
    rdiags,      \* the diagnostic vector handed to DiagnosticRefiner::refine
    rprofiles,   \* the profile map the refiner was constructed with
    rpasses,     \* number of refine() calls made so far
    ronce,       \* the vector as it was after the first refine() call
    rlastAdj,    \* per diagnostic: the clamp the last call applied (or NoAdj)
    reverAdj,    \* per diagnostic: some call adjusted its confidence
    aconf,       \* a confidence value under applyAdjustments
    alast,       \* the adjustment list of the last applyAdjustments call
    atrace,      \* the trace vector applyAdjustments appends to
    \* --- cache key construction (SpecKey) ---
    kjobs,       \* the two compile jobs whose keys are compared
    kkeys,       \* their keys, once computed (<<>> before)
    \* --- main(): one record per run of the tool (Spec, SpecTwoRuns...) ---
    input,       \* the fixed input: sources, AST diagnostics, IR modules, config
    pc,          \* per run: position of the main thread
    idx,         \* per run: loop index of the main thread's current loop
    jobs,        \* per run: the IRJob vector
    sem,         \* per run: permits left in the counting semaphore
    maxWorkers,  \* per run: the semaphore's initial count
    worker,      \* per run, per job: state of the std::async worker
    future,      \* per run, per job: the IRResult, once the future is ready
    result,      \* per run: the IRResult futures[i].get() returned last
    profiles,    \* per run: irAnalyzer.profiles()
    diagnostics, \* per run: the diagnostics vector
    refined,     \* per run: the vector as it left the refinement pass
    registry,    \* per run: falsePositiveRegistry_ of the calibration store
    gateDropped, \* per run: the diagnostics the calibration gate erased
    sawPartial,  \* per run: a partially written IR artifact was taken for cached
    output,      \* per run: the emitted diagnostic sequence (<<>> before)
    irDisk,      \* shared: per cache key, the IR artifact on disk
    errDisk,     \* shared: per cache key, whether the .err file exists
    \* --- the calibration feedback store on its own (SpecStore) ---
    records_,                \* CalibrationFeedbackStore::records_
    falsePositiveRegistry_,  \* CalibrationFeedbackStore::falsePositiveRegistry_
    \* --- the AST consumer and the rules (SpecRules) ---
    tu,             \* the top-level declarations of the translation unit
    rules_,         \* RuleRegistry::rules_, in registration order
    config_,        \* the Config the oracle was constructed with
    hotCache_,      \* HotPathOracle::hotCache_
    diagnostics_,   \* FaultlineASTConsumer::diagnostics_
    astDiagnostics, \* the diagnostics as the rules emitted them
    phase,          \* "idle", "parsed", "analyzed" or "refined"
    \* --- EscapeAnalysis on a record being written (SpecEscape) ---
    record,         \* the CXXRecordDecl as it is declared now
    escapedBefore,  \* mayEscapeThread of the record before its last edit
    edited,         \* the last edit: "none", "definition", "field", "base field"
    \* --- CacheLineMap (SpecLayout) ---
    layoutRD,        \* the record the map is constructed for, with its layout
    cacheLineBytes_, \* CacheLineMap::cacheLineBytes_
    sizeBytes_,      \* CacheLineMap::sizeBytes_
    linesSpanned_,   \* CacheLineMap::linesSpanned_
    totalAtomics_,   \* CacheLineMap::totalAtomics_
    totalMutables_,  \* CacheLineMap::totalMutables_
    fields_,         \* CacheLineMap::fields_
    buckets_,        \* CacheLineMap::buckets_ (fields as indices into fields_)
    mapPhase,        \* "idle", "declared" or "built"
    \* --- main() and its exit code (SpecExit) ---
    xargs,      \* the command line
    xpc,        \* position of main(): "start", "parsed", "ran", ..., "returned"
    xret,       \* the value tool.run returned
    xdiags,     \* the diagnostics vector
    xwritten,   \* the diagnostics written to standard output or the file
    exitCode,   \* the value main() returned (-1 before)
    \* --- HypothesisConstructor and InteractionDetector (SpecInteract) ---
    hypotheses, \* the hypotheses constructed from the diagnostics
    candidates, \* the vector InteractionDetector::detect returned
    ixpc        \* "idle", "constructed", "detected" or "crashed"

refVars  == <<rdiags, rprofiles, rpasses, ronce, rlastAdj, reverAdj,
              aconf, alast, atrace>>
keyVars  == <<kjobs, kkeys>>
mainVars == <<input, pc, idx, jobs, sem, maxWorkers, worker, future, result,
              profiles, diagnostics, refined, registry, gateDropped,
              sawPartial, output,
              irDisk, errDisk>>
storeVars == <<records_, falsePositiveRegistry_>>
ruleVars == <<tu, rules_, config_, hotCache_, diagnostics_, astDiagnostics,
              phase>>
escVars == <<record, escapedBefore, edited>>
mapVars == <<layoutRD, cacheLineBytes_, sizeBytes_, linesSpanned_,
            totalAtomics_, totalMutables_, fields_, buckets_, mapPhase>>
exitVars == <<xargs, xpc, xret, xdiags, xwritten, exitCode>>
ixVars == <<hypotheses, candidates, ixpc>>
libVars == <<escVars, mapVars, exitVars, ixVars>>
extVars  == <<storeVars, ruleVars, libVars>>
vars     == <<refVars, keyVars, mainVars, extVars>>

----------------------------------------------------------------------------
(* Severity.h, Diagnostic.h: the enumerators with their uint8_t values.    *)

Informational == 0
Medium        == 1
High          == 2
Critical      == 3

Proven      == 0
Likely      == 1
Speculative == 2

(* ConfidenceModel.h, namespace evidence, in hundredths.                   *)
kSiteConfirmed       == 10
kFunctionConfirmed   == 5
kOptimizedAway       == -20
kHeapSurvived        == 5
kHeapEliminated      == -15
kIndirectConfirmed   == 10
kFullyDevirtualized  == -25
kLockConfirmed       == 5
kStackConfirmed      == 10
kFloor               == 10
kCeilingSiteProven   == 98
kCeilingFuncLevel    == 95
kCeilingModerate     == 92
kFloorOptimizedAway  == 30
kFloorDevirtualized  == 30
kFloorHeapEliminated == 40
kFloorIndirectGone   == 35

(* refineFL021's threshold; its large-alloca listing limit.                *)
StackThreshold == 2048
LargeAlloca    == 256

----------------------------------------------------------------------------
(* Small helpers over sequences.                                           *)

Min(S) == CHOOSE x \in S : \A y \in S : x <= y

IsSuffix(s, t) ==
    /\ Len(s) <= Len(t)
    /\ SubSeq(t, Len(t) - Len(s) + 1, Len(t)) = s

RECURSIVE SeqSum(_)
SeqSum(s) == IF s = <<>> THEN 0 ELSE Head(s) + SeqSum(Tail(s))

(* std::clamp(v, lo, hi), preceded by a faulty variant that forgets the    *)
(* upper bound, which the confidence-range property must tell apart.       *)
ClampNoCeiling(v, lo, hi) == IF v < lo THEN lo ELSE v

Clamp(v, lo, hi) == IF v < lo THEN lo ELSE IF hi < v THEN hi ELSE v

----------------------------------------------------------------------------
(* IRAnalyzer: one lowered function is the list of its instructions that   *)
(* the profile builder looks at.  kind is "alloca", "atomic" (an atomic    *)
(* load/store, atomicrmw, cmpxchg or fence), "call" or "invoke"; callee is *)
(* "" for an indirect call; line 0 means no debug location.                *)

Inst(kind, op, seqCst, inLoop, file, line, callee, size) ==
    [kind |-> kind, op |-> op, seqCst |-> seqCst, inLoop |-> inLoop,
     file |-> file, line |-> line, callee |-> callee, size |-> size]

HeapAllocNames == {"malloc", "calloc", "realloc", "aligned_alloc",
                   "posix_memalign", "_Znwm", "_Znam",
                   "_ZnwmSt11align_val_t", "_ZnamSt11align_val_t",
                   "_ZnwmRKSt9nothrow_t"}
HeapFreeNames  == {"free", "_ZdlPv", "_ZdaPv", "_ZdlPvm"}

isHeapAllocFunction(name) == name \in HeapAllocNames
isHeapFreeFunction(name)  == name \in HeapFreeNames

EmptyProfile(mangled, demangled) ==
    [mangledName |-> mangled, demangledName |-> demangled,
     totalAllocaBytes |-> 0, allocas |-> <<>>, heapAllocCalls |-> <<>>,
     indirectCallCount |-> 0, directCallCount |-> 0,
     atomics |-> <<>>, fenceCount |-> 0, seqCstCount |-> 0]

(* The body of analyzeFunction's instruction loop for one instruction.     *)
analyzeInst(p, I) ==
    CASE I.kind = "alloca" ->
           [p EXCEPT !.totalAllocaBytes = @ + I.size,
                     !.allocas = Append(@, [name |-> I.callee,
                                            sizeBytes |-> I.size])]
      [] I.kind = "atomic" ->
           [p EXCEPT !.atomics = Append(@, [op |-> I.op, seqCst |-> I.seqCst,
                                            isInLoop |-> I.inLoop,
                                            sourceFile |-> I.file,
                                            sourceLine |-> I.line]),
                     !.fenceCount = IF I.op = "Fence" THEN @ + 1 ELSE @,
                     !.seqCstCount = IF I.seqCst THEN @ + 1 ELSE @]
      [] I.kind \in {"call", "invoke"} /\ I.callee = "" ->
           [p EXCEPT !.indirectCallCount = @ + 1,
                     !.heapAllocCalls = Append(@, [calleeName |-> "",
                                                   isIndirect |-> TRUE,
                                                   isInLoop |-> I.inLoop])]
      [] I.kind \in {"call", "invoke"} /\ I.callee # "" ->
           [p EXCEPT !.directCallCount = @ + 1,
                     !.heapAllocCalls =
                         IF isHeapAllocFunction(I.callee)
                            \/ isHeapFreeFunction(I.callee)
                         THEN Append(@, [calleeName |-> I.callee,
                                         isIndirect |-> FALSE,
                                         isInLoop |-> I.inLoop])
                         ELSE @]
      [] OTHER -> p

RECURSIVE analyzeInsts(_, _)
analyzeInsts(p, insts) ==
    IF insts = <<>> THEN p
    ELSE analyzeInsts(analyzeInst(p, Head(insts)), Tail(insts))

(* analyzeFunction: the profile of F, stored under its mangled name.  The  *)
(* map is kept as the sequence of its entries; storing under a name that   *)
(* is present overwrites that entry.                                       *)
analyzeFunction(map, F) ==
    LET prof == analyzeInsts(EmptyProfile(F.mangledName, F.demangledName),
                             F.insts)
        at   == {i \in DOMAIN map : map[i].mangledName = F.mangledName}
    IN  IF at = {} THEN Append(map, prof)
        ELSE [map EXCEPT ![Min(at)] = prof]

RECURSIVE analyzeModule(_, _)
analyzeModule(map, M) ==
    IF M = <<>> THEN map
    ELSE analyzeModule(analyzeFunction(map, Head(M)), Tail(M))

----------------------------------------------------------------------------
(* DiagnosticRefiner.                                                      *)

Esc(text, s, a, b, list) ==
    [text |-> text, s |-> s, a |-> a, b |-> b, list |-> list]

EvField(key, name, num) == [key |-> key, name |-> name, num |-> num]

(* structuralEvidence.find(key "="): index of the first field, 0 = npos.   *)
EvFind(ev, key) ==
    LET at == {i \in DOMAIN ev : ev[i].key = key}
    IN  IF at = {} THEN 0 ELSE Min(at)

filePathSuffixMatch(a, b) ==
    LET longer  == IF Len(a) >= Len(b) THEN a ELSE b
        shorter == IF Len(a) >= Len(b) THEN b ELSE a
    IN  IF shorter = <<>> THEN FALSE
        ELSE IF longer = shorter THEN TRUE
        ELSE IF Len(longer) <= Len(shorter) THEN FALSE
        ELSE IsSuffix(shorter, longer)

extractFunctionName(diag) ==
    IF diag.functionName # <<>> THEN diag.functionName
    ELSE IF EvFind(diag.structuralEvidence, "function") # 0
         THEN diag.structuralEvidence[
                  EvFind(diag.structuralEvidence, "function")].name
    ELSE IF EvFind(diag.structuralEvidence, "caller") # 0
         THEN diag.structuralEvidence[
                  EvFind(diag.structuralEvidence, "caller")].name
    ELSE <<>>

(* findProfile: index into the map, 0 for nullptr.  The map is walked in   *)
(* the order the profiles were inserted.                                   *)
findProfile(map, funcName) ==
    LET exact == {i \in DOMAIN map : map[i].demangledName = funcName}
        suff  == {i \in DOMAIN map :
                     /\ Len(map[i].demangledName) > Len(funcName)
                     /\ IsSuffix(funcName, map[i].demangledName)}
        mang  == {i \in DOMAIN map : map[i].mangledName = funcName}
    IN  IF funcName = <<>> THEN 0
        ELSE IF exact # {} THEN Min(exact)
        ELSE IF suff # {} THEN Min(suff)
        ELSE IF mang # {} THEN Min(mang)
        ELSE 0

(* One clamped confidence adjustment: confidence = clamp(confidence +      *)
(* delta, floor, ceiling).                                                 *)
Adj(delta, floor, ceiling) ==
    [applied |-> TRUE, delta |-> delta, floor |-> floor, ceiling |-> ceiling]
NoAdj == [applied |-> FALSE, delta |-> 0, floor |-> 0, ceiling |-> 0]

ApplyAdj(c, adj) ==
    IF adj.applied THEN Clamp(c + adj.delta, adj.floor, adj.ceiling) ELSE c

IsWrite(ai) == ai.op \in {"Store", "RMW", "CmpXchg"}

(* refineFL010 *)
FL010Sites(diag, p) ==
    {i \in DOMAIN p.atomics :
        /\ p.atomics[i].sourceLine # 0
        /\ p.atomics[i].sourceLine = diag.line
        /\ \/ diag.file = <<>>
           \/ p.atomics[i].sourceFile = <<>>
           \/ filePathSuffixMatch(diag.file, p.atomics[i].sourceFile)
        /\ p.atomics[i].seqCst}

siteOpName(op) ==
    CASE op = "Store"   -> "store"
      [] op = "RMW"     -> "rmw"
      [] op = "CmpXchg" -> "cmpxchg"
      [] op = "Fence"   -> "fence"
      [] OTHER          -> "atomic"

FL010Adj(diag, p) ==
    IF FL010Sites(diag, p) # {}
    THEN Adj(kSiteConfirmed, kFloor, kCeilingSiteProven)
    ELSE IF p.seqCstCount > 0
    THEN Adj(kFunctionConfirmed, kFloor, kCeilingModerate)
    ELSE IF p.atomics # <<>>
    THEN Adj(kOptimizedAway, kFloorOptimizedAway, kCeilingSiteProven)
    ELSE NoAdj

refineFL010(diag, map) ==
    LET pi == findProfile(map, extractFunctionName(diag)) IN
    IF pi = 0 THEN diag
    ELSE
    LET p     == map[pi]
        sites == FL010Sites(diag, p)
        d1 == [diag EXCEPT
                 !.confidence = ApplyAdj(@, FL010Adj(diag, p)),
                 !.evidenceTier = IF sites # {} THEN Proven ELSE @,
                 !.escalations =
                    IF sites # {}
                    THEN Append(@, Esc("IR site-confirmed: seq_cst survives lowering",
                                       siteOpName(p.atomics[Min(sites)].op),
                                       diag.line, 0, <<>>))
                    ELSE IF p.seqCstCount > 0
                    THEN Append(@, Esc("IR confirmed: seq_cst instruction(s) in function (no exact line match)",
                                       "", p.seqCstCount, 0, <<>>))
                    ELSE IF p.atomics # <<>>
                    THEN Append(@, Esc("IR refinement: no seq_cst instructions emitted",
                                       "", 0, 0, <<>>))
                    ELSE @]
    IN  IF p.fenceCount > 0
        THEN [d1 EXCEPT !.escalations =
                 Append(@, Esc("IR confirmed: explicit fence instruction(s)",
                               "", p.fenceCount, 0, <<>>))]
        ELSE d1

(* refineFL011 *)
FL011Adj(diag, p) ==
    IF \E i \in DOMAIN p.atomics : IsWrite(p.atomics[i])
    THEN Adj(kSiteConfirmed, kFloor, kCeilingFuncLevel)
    ELSE NoAdj

refineFL011(diag, map) ==
    LET pi == findProfile(map, extractFunctionName(diag)) IN
    IF pi = 0 THEN diag
    ELSE
    LET p == map[pi]
        writes == {i \in DOMAIN p.atomics : IsWrite(p.atomics[i])}
        atomicWriteCount == Cardinality(writes)
        loopAtomics == Cardinality({i \in writes : p.atomics[i].isInLoop})
        siteMatched == Cardinality({i \in writes : p.atomics[i].sourceLine > 0})
    IN  IF atomicWriteCount > 0
        THEN [diag EXCEPT
                !.confidence = ApplyAdj(@, FL011Adj(diag, p)),
                !.evidenceTier = IF siteMatched > 0 THEN Proven ELSE @,
                !.escalations =
                    Append(@, Esc("IR confirmed: atomic write instruction(s)",
                                  "", atomicWriteCount, loopAtomics,
                                  <<siteMatched>>))]
        ELSE diag

(* refineFL020 *)
FL020HeapCalls(p) ==
    {i \in DOMAIN p.heapAllocCalls : ~p.heapAllocCalls[i].isIndirect}

FL020Adj(diag, p) ==
    IF FL020HeapCalls(p) # {}
    THEN Adj(kHeapSurvived, kFloor, kCeilingSiteProven)
    ELSE Adj(kHeapEliminated, kFloorHeapEliminated, kCeilingSiteProven)

refineFL020(diag, map) ==
    LET pi == findProfile(map, extractFunctionName(diag)) IN
    IF pi = 0 THEN diag
    ELSE
    LET p == map[pi]
        heapCalls == Cardinality(FL020HeapCalls(p))
        loopHeapCalls == Cardinality({i \in FL020HeapCalls(p) :
                                         p.heapAllocCalls[i].isInLoop})
    IN  [diag EXCEPT
            !.confidence = ApplyAdj(@, FL020Adj(diag, p)),
            !.escalations =
                IF heapCalls > 0
                THEN Append(@, Esc("IR confirmed: heap alloc/free call(s) after inlining",
                                   "", heapCalls, loopHeapCalls, <<>>))
                ELSE Append(@, Esc("IR refinement: no heap alloc calls found after inlining",
                                   "", 0, 0, <<>>))]

(* refineFL021 *)
FL021Suppresses(p) ==
    p.totalAllocaBytes < StackThreshold /\ p.totalAllocaBytes > 0

FL021Adj(diag, p) ==
    IF ~FL021Suppresses(p) /\ p.totalAllocaBytes > 0
    THEN Adj(kStackConfirmed, kFloor, kCeilingFuncLevel)
    ELSE NoAdj

(* A faulty variant that lowers the severity of what it suppresses comes   *)
(* first.                                                                  *)
refineFL021Downgrading(diag, map) ==
    LET pi == findProfile(map, extractFunctionName(diag)) IN
    IF pi = 0 THEN diag
    ELSE IF FL021Suppresses(map[pi])
    THEN [diag EXCEPT !.suppressed = TRUE, !.severity = Informational]
    ELSE [diag EXCEPT !.evidenceTier = Proven]

refineFL021(diag, map) ==
    LET pi == findProfile(map, extractFunctionName(diag)) IN
    IF pi = 0 THEN diag
    ELSE
    LET p == map[pi]
        irStackSize == p.totalAllocaBytes
        large == SelectSeq(p.allocas, LAMBDA a : a.sizeBytes >= LargeAlloca)
        estPos == EvFind(diag.structuralEvidence, "estimated_frame")
        astEstimate == IF estPos # 0 THEN diag.structuralEvidence[estPos].num
                       ELSE 0
        d1 == [diag EXCEPT !.escalations =
                 Append(@, Esc("IR confirmed: stack frame from alloca(s)", "",
                               irStackSize, Len(p.allocas),
                               [i \in DOMAIN large |-> large[i].sizeBytes]))]
        d2 == [d1 EXCEPT
                 !.confidence = ApplyAdj(@, FL021Adj(diag, p)),
                 !.evidenceTier = Proven,
                 !.structuralEvidence =
                     @ \o <<EvField("ir_frame", <<>>, irStackSize),
                            EvField("ir_allocas", <<>>, Len(p.allocas))>>]
    IN  IF FL021Suppresses(p)
        THEN [diag EXCEPT
                 !.suppressed = TRUE,
                 !.escalations =
                     Append(@, Esc("IR suppressed: actual stack frame below threshold",
                                   "", irStackSize, StackThreshold, <<>>))]
        ELSE IF irStackSize > 0
        THEN IF astEstimate > 0 /\ irStackSize > astEstimate * 2
             THEN [d2 EXCEPT !.escalations =
                      Append(@, Esc("IR stack frame exceeds AST estimate", "",
                                    irStackSize, astEstimate, <<>>))]
             ELSE d2
        ELSE d1

(* refineFL030 *)
FL030Adj(diag, p) ==
    IF p.indirectCallCount > 0
    THEN Adj(kIndirectConfirmed, kFloor, kCeilingFuncLevel)
    ELSE IF p.directCallCount > 0
    THEN Adj(kFullyDevirtualized, kFloorDevirtualized, kCeilingSiteProven)
    ELSE NoAdj

refineFL030(diag, map) ==
    LET pi == findProfile(map, extractFunctionName(diag)) IN
    IF pi = 0 THEN diag
    ELSE
    LET p == map[pi] IN
    [diag EXCEPT
        !.confidence = ApplyAdj(@, FL030Adj(diag, p)),
        !.escalations =
            IF p.indirectCallCount > 0
            THEN Append(@, Esc("IR confirmed: indirect call(s) remain after devirtualization",
                               "", p.indirectCallCount, 0, <<>>))
            ELSE IF p.directCallCount > 0
            THEN Append(@, Esc("IR refinement: all calls devirtualized to direct",
                               "", 0, 0, <<>>))
            ELSE @]

(* refineFL031 *)
FL031Adj(diag, p) ==
    IF p.indirectCallCount > 0
    THEN Adj(kIndirectConfirmed, kFloor, kCeilingFuncLevel)
    ELSE Adj(kOptimizedAway, kFloorIndirectGone, kCeilingSiteProven)

refineFL031(diag, map) ==
    LET pi == findProfile(map, extractFunctionName(diag)) IN
    IF pi = 0 THEN diag
    ELSE
    LET p == map[pi] IN
    [diag EXCEPT
        !.confidence = ApplyAdj(@, FL031Adj(diag, p)),
        !.escalations =
            IF p.indirectCallCount > 0
            THEN Append(@, Esc("IR confirmed: indirect call(s), type-erased dispatch not eliminated",
                               "", p.indirectCallCount, 0, <<>>))
            ELSE Append(@, Esc("IR refinement: no indirect calls found",
                               "", 0, 0, <<>>))]

(* refineFL012 *)
MutexCallNames == {"pthread_mutex_lock", "pthread_mutex_unlock",
                   "__gthread_mutex_lock"}

FL012Confirmed(p) ==
    \/ \E i \in DOMAIN p.heapAllocCalls :
          p.heapAllocCalls[i].calleeName \in MutexCallNames
    \/ \E i \in DOMAIN p.atomics : p.atomics[i].op = "CmpXchg"

FL012Adj(diag, p) ==
    IF FL012Confirmed(p) THEN Adj(kLockConfirmed, kFloor, kCeilingFuncLevel)
    ELSE NoAdj

refineFL012(diag, map) ==
    LET pi == findProfile(map, extractFunctionName(diag)) IN
    IF pi = 0 THEN diag
    ELSE
    LET p == map[pi]
        hasMutexCall == \E i \in DOMAIN p.heapAllocCalls :
                           p.heapAllocCalls[i].calleeName \in MutexCallNames
        siteCorrelated == \E i \in DOMAIN p.atomics :
                             /\ p.atomics[i].op = "CmpXchg"
                             /\ p.atomics[i].sourceLine = diag.line
                             /\ diag.line > 0
    IN  IF FL012Confirmed(p)
        THEN [diag EXCEPT
                !.confidence = ApplyAdj(@, FL012Adj(diag, p)),
                !.evidenceTier = IF siteCorrelated THEN Proven ELSE @,
                !.escalations =
                    Append(@, Esc("IR confirmed: present in lowered IR",
                                  IF hasMutexCall THEN "pthread_mutex call"
                                  ELSE "atomic cmpxchg (lock internals)",
                                  IF siteCorrelated THEN diag.line ELSE 0,
                                  0, <<>>))]
        ELSE diag

(* refineFL090: aggregates over every profile of the map.                  *)
refineFL090(diag, map) ==
    LET totalAtomicWrites ==
            SeqSum([k \in DOMAIN map |->
                Cardinality({i \in DOMAIN map[k].atomics :
                                IsWrite(map[k].atomics[i])})])
        totalIndirectCalls ==
            SeqSum([k \in DOMAIN map |-> map[k].indirectCallCount])
        totalFences == SeqSum([k \in DOMAIN map |-> map[k].fenceCount])
    IN  IF totalAtomicWrites > 0 \/ totalFences > 0
        THEN [diag EXCEPT !.escalations =
                 Append(@, Esc("IR aggregate across module", "",
                               totalAtomicWrites, totalFences,
                               <<totalIndirectCalls>>))]
        ELSE diag

(* refine's dispatch for one diagnostic, and refine over the vector.       *)
refineOne(diag, map) ==
    CASE diag.ruleID = "FL010" -> refineFL010(diag, map)
      [] diag.ruleID = "FL011" -> refineFL011(diag, map)
      [] diag.ruleID = "FL012" -> refineFL012(diag, map)
      [] diag.ruleID = "FL020" -> refineFL020(diag, map)
      [] diag.ruleID = "FL021" -> refineFL021(diag, map)
      [] diag.ruleID = "FL030" -> refineFL030(diag, map)
      [] diag.ruleID = "FL031" -> refineFL031(diag, map)
      [] diag.ruleID = "FL090" -> refineFL090(diag, map)
      [] OTHER -> diag

refine(diags, map) == [i \in DOMAIN diags |-> refineOne(diags[i], map)]

(* The clamp, if any, that refine applies to this diagnostic's confidence. *)
AdjOf(diag, map) ==
    LET pi == findProfile(map, extractFunctionName(diag)) IN
    IF pi = 0 THEN NoAdj
    ELSE CASE diag.ruleID = "FL010" -> FL010Adj(diag, map[pi])
           [] diag.ruleID = "FL011" -> FL011Adj(diag, map[pi])
           [] diag.ruleID = "FL012" -> FL012Adj(diag, map[pi])
           [] diag.ruleID = "FL020" -> FL020Adj(diag, map[pi])
           [] diag.ruleID = "FL021" -> FL021Adj(diag, map[pi])
           [] diag.ruleID = "FL030" -> FL030Adj(diag, map[pi])
           [] diag.ruleID = "FL031" -> FL031Adj(diag, map[pi])
           [] OTHER -> NoAdj

(* ConfidenceModel.h applyAdjustments: folds the adjustments over the base *)
(* and appends a trace entry for each one that changed the value.          *)
RECURSIVE applyAdjustments(_, _, _)
applyAdjustments(base, adjs, trace) ==
    IF adjs = <<>> THEN [c |-> base, trace |-> trace]
    ELSE LET a == Head(adjs)
             c == Clamp(base + a.delta, a.floor, a.ceiling)
         IN  applyAdjustments(c, Tail(adjs),
                 IF c # base
                 THEN Append(trace, [delta |-> a.delta, prev |-> base,
                                     now |-> c, factor |-> a.factor])
                 ELSE trace)

----------------------------------------------------------------------------
(* Bounded inputs.  Names, paths, lowered functions, and the diagnostics   *)
(* the detectors seed (rule id, severity, confidence, tier as in           *)
(* src/rules/*.cpp; FL020 and FL012 set functionName, the other function   *)
(* rules print "function=" or "caller=" into the evidence, FL021 prints    *)
(* neither).                                                               *)

MaxDiags  == 2   \* longest diagnostic vector explored
MaxPasses == 3   \* refine() calls explored on one vector
MaxAdjs   == 3   \* longest adjustment list handed to applyAdjustments

FnF    == <<"f">>
FnQf   == <<"Q", "f">>
FnNsQf == <<"ns", "Q", "f">>
FnG    == <<"g">>

FileA   == <<"src", "a.cpp">>
FileB   == <<"src", "b.cpp">>
FileHdr == <<"src", "q.h">>
DbgA    == <<"a.cpp">>

(* Rule::getTitle: the title every rule gives its diagnostics. *)
getTitle(rule) ==
    CASE rule = "FL001" -> "Cache Line Spanning Struct"
      [] rule = "FL002" -> "False Sharing Candidate"
      [] rule = "FL010" -> "Overly Strong Atomic Ordering"
      [] rule = "FL011" -> "Atomic Contention Hotspot"
      [] rule = "FL012" -> "Lock in Hot Path"
      [] rule = "FL020" -> "Heap Allocation in Hot Path"
      [] rule = "FL021" -> "Large Stack Frame"
      [] rule = "FL030" -> "Virtual Dispatch in Hot Path"
      [] rule = "FL031" -> "std::function in Hot Path"
      [] rule = "FL040" -> "Centralized Mutable Global State"
      [] rule = "FL041" -> "Contended Queue Pattern"
      [] rule = "FL050" -> "Deep Conditional Tree in Hot Path"
      [] rule = "FL060" -> "NUMA-Unfriendly Shared Structure"
      [] rule = "FL061" -> "Centralized Dispatcher Bottleneck"
      [] rule = "FL090" -> "Hazard Amplification"
      [] OTHER -> ""

(* A Diagnostic as a rule fills it in; the column is that of a statement   *)
(* at the start of its line.                                               *)
Diag(rule, sev, conf, tier, file, line, fn, ev) ==
    [ruleID |-> rule, title |-> getTitle(rule), severity |-> sev,
     confidence |-> conf, evidenceTier |-> tier, suppressed |-> FALSE,
     file |-> file, line |-> line, column |-> 5, functionName |-> fn,
     structuralEvidence |-> ev, escalations |-> <<>>]

IRFunc(mangled, demangled, insts) ==
    [mangledName |-> mangled, demangledName |-> demangled, insts |-> insts]

\* extern "C" f: a seq_cst store in a loop at a.cpp:10 and a fence.
IRf == IRFunc(FnF, FnF,
         <<Inst("atomic", "Store", TRUE, TRUE, DbgA, 10, "", 0),
           Inst("atomic", "Fence", TRUE, FALSE, <<>>, 0, "", 0),
           Inst("call", "", FALSE, FALSE, <<>>, 0, "malloc", 0)>>)
\* ns::Q::f: a relaxed RMW without debug location, an indirect call, a
\* small frame.
IRnsQf == IRFunc(<<"_ZN2ns1Q1fEv">>, FnNsQf,
         <<Inst("alloca", "", FALSE, FALSE, <<>>, 0, "buf", 1024),
           Inst("atomic", "RMW", FALSE, FALSE, <<>>, 0, "", 0),
           Inst("invoke", "", FALSE, TRUE, <<>>, 0, "", 0)>>)
\* Q::f: a cmpxchg at line 10, direct calls only, a frame of 8192 bytes.
IRQf == IRFunc(<<"_ZN1Q1fEv">>, FnQf,
         <<Inst("alloca", "", FALSE, FALSE, <<>>, 0, "a", 4096),
           Inst("alloca", "", FALSE, FALSE, <<>>, 0, "b", 4096),
           Inst("atomic", "CmpXchg", TRUE, FALSE, DbgA, 10, "", 0),
           Inst("call", "", FALSE, FALSE, <<>>, 0, "pthread_mutex_lock", 0)>>)
\* static f of another translation unit: a frame of 2304 bytes, no atomics.
IRfOther == IRFunc(FnF, FnF,
         <<Inst("alloca", "", FALSE, FALSE, <<>>, 0, "x", 2048),
           Inst("alloca", "", FALSE, FALSE, <<>>, 0, "y", 256),
           Inst("atomic", "Load", FALSE, FALSE, DbgA, 10, "", 0)>>)
\* g: nothing the profile builder records.
IRg == IRFunc(FnG, FnG, <<>>)

ModulePool == {<<>>, <<IRf>>, <<IRnsQf>>, <<IRQf, IRg>>, <<IRfOther>>,
               <<IRf, IRnsQf>>}

EvFn(name)     == <<EvField("function", name, 0)>>
EvCaller(name) == <<EvField("caller", name, 0)>>
EvFrame(n)     == <<EvField("estimated_frame", <<>>, n),
                    EvField("threshold", <<>>, StackThreshold)>>

DiagPool ==
    { Diag("FL010", High,     85, Likely,      FileA, 10, <<>>, EvFn(FnF)),
      Diag("FL010", Medium,   55, Speculative, FileA, 11, <<>>, EvFn(FnQf)),
      Diag("FL011", Critical, 80, Speculative, FileA, 9,  <<>>, EvFn(FnF)),
      Diag("FL012", Critical, 75, Likely,      FileA, 10, FnQf, EvFn(FnQf)),
      Diag("FL020", Critical, 75, Likely,      FileB, 20, FnF,  EvFn(FnF)),
      Diag("FL021", Medium,   80, Likely,      FileA, 8,  <<>>, EvFrame(2100)),
      Diag("FL021", High,     80, Likely,      FileB, 8,  FnQf, EvFrame(3000)),
      Diag("FL021", High,     80, Likely,      FileB, 8,  FnF,  EvFrame(2100)),
      Diag("FL030", High,     80, Proven,      FileA, 12, <<>>, EvCaller(FnF)),
      Diag("FL031", High,     80, Proven,      FileB, 12, <<>>, EvCaller(FnQf)),
      Diag("FL090", Critical, 90, Speculative, FileHdr, 3, <<>>, <<>>),
      Diag("FL001", High,     72, Proven,      FileHdr, 3, <<>>, <<>>),
      Diag("FL060", High,     35, Speculative, FileHdr, 3, <<>>, <<>>) }

SeqsUpTo(S, n) == UNION {[1..k -> S] : k \in 0..n}

(* The ConfidenceAdjustment values the evidence namespace gives rise to.   *)
NamedAdj(factor, delta, floor, ceiling) ==
    [factor |-> factor, delta |-> delta, floor |-> floor, ceiling |-> ceiling]

NamedAdjustments ==
    { NamedAdj("site-confirmed", kSiteConfirmed, kFloor, kCeilingSiteProven),
      NamedAdj("function-confirmed", kFunctionConfirmed, kFloor, kCeilingModerate),
      NamedAdj("optimized-away", kOptimizedAway, kFloorOptimizedAway, kCeilingSiteProven),
      NamedAdj("heap-survived", kHeapSurvived, kFloor, kCeilingSiteProven),
      NamedAdj("heap-eliminated", kHeapEliminated, kFloorHeapEliminated, kCeilingSiteProven),
      NamedAdj("indirect-confirmed", kIndirectConfirmed, kFloor, kCeilingFuncLevel),
      NamedAdj("fully-devirtualized", kFullyDevirtualized, kFloorDevirtualized, kCeilingSiteProven),
      NamedAdj("indirect-gone", kOptimizedAway, kFloorIndirectGone, kCeilingSiteProven),
      NamedAdj("stack-confirmed", kStackConfirmed, kFloor, kCeilingFuncLevel) }

SeedConfidences == {0, 35, 55, 90, 100}

----------------------------------------------------------------------------
(* SpecRefiner: DiagnosticRefiner::refine applied again and again to one   *)
(* vector with one profile map, and applyAdjustments applied to a value.   *)

RefIdle ==
    /\ rdiags = <<>> /\ rprofiles = <<>> /\ rpasses = 0 /\ ronce = <<>>
    /\ rlastAdj = <<>> /\ reverAdj = <<>>
    /\ aconf = 0 /\ alast = <<>> /\ atrace = <<>>

RefInit ==
    /\ \E M \in ModulePool : rprofiles = analyzeModule(<<>>, M)
    /\ \/ /\ rdiags \in SeqsUpTo(DiagPool, MaxDiags) \ {<<>>}
          /\ aconf = 0
       \/ /\ rdiags = <<>>
          /\ aconf \in SeedConfidences
    /\ rpasses = 0
    /\ ronce = <<>>
    /\ rlastAdj = [i \in DOMAIN rdiags |-> NoAdj]
    /\ reverAdj = [i \in DOMAIN rdiags |-> FALSE]
    /\ alast = <<>>
    /\ atrace = <<>>

RefineCall ==
    /\ rdiags # <<>>
    /\ rpasses < MaxPasses
    /\ rdiags' = refine(rdiags, rprofiles)
    /\ rpasses' = rpasses + 1
    /\ ronce' = IF rpasses = 0 THEN rdiags' ELSE ronce
    /\ rlastAdj' = [i \in DOMAIN rdiags |-> AdjOf(rdiags[i], rprofiles)]
    /\ reverAdj' = [i \in DOMAIN rdiags |->
                       reverAdj[i] \/ AdjOf(rdiags[i], rprofiles).applied]
    /\ UNCHANGED <<rprofiles, aconf, alast, atrace, keyVars, mainVars, extVars>>

ApplyAdjustmentsCall ==
    /\ rdiags = <<>>
    /\ alast = <<>>
    /\ \E adjs \in SeqsUpTo(NamedAdjustments, MaxAdjs) \ {<<>>} :
          LET r == applyAdjustments(aconf, adjs, <<>>) IN
          /\ aconf' = r.c
          /\ atrace' = r.trace
          /\ alast' = adjs
    /\ UNCHANGED <<rdiags, rprofiles, rpasses, ronce, rlastAdj, reverAdj,
                   keyVars, mainVars, extVars>>

----------------------------------------------------------------------------
(* main(): the structured argv of an emission job and its cache key.       *)
(* A compile job is [srcPath, srcBytes, compilerPath, optLevel, cmds,      *)
(* toolVersion]: the source path, the bytes of the source file, the        *)
(* resolved compiler, "-" + --ir-opt, the compile commands of the          *)
(* compilation database (each a command line, argv[0] first) and           *)
(* kToolVersion of the build.                                              *)

(* The loop over one command line, from (1-based) index i on: skips "-c",  *)
(* "-o" with the argument after it when there is one, and the source path. *)
(* A faulty variant that drops "-o" but keeps its argument comes first.    *)
RECURSIVE FilterArgsKeepOutput(_, _, _)
FilterArgsKeepOutput(args, i, srcPath) ==
    IF i > Len(args) THEN <<>>
    ELSE IF args[i] = "-c" THEN FilterArgsKeepOutput(args, i + 1, srcPath)
    ELSE IF args[i] = "-o" /\ i + 1 <= Len(args)
         THEN FilterArgsKeepOutput(args, i + 1, srcPath)
    ELSE IF args[i] = srcPath THEN FilterArgsKeepOutput(args, i + 1, srcPath)
    ELSE <<args[i]>> \o FilterArgsKeepOutput(args, i + 1, srcPath)

RECURSIVE FilterArgs(_, _, _)
FilterArgs(args, i, srcPath) ==
    IF i > Len(args) THEN <<>>
    ELSE IF args[i] = "-c" THEN FilterArgs(args, i + 1, srcPath)
    ELSE IF args[i] = "-o" /\ i + 1 <= Len(args)
         THEN FilterArgs(args, i + 2, srcPath)
    ELSE IF args[i] = srcPath THEN FilterArgs(args, i + 1, srcPath)
    ELSE <<args[i]>> \o FilterArgs(args, i + 1, srcPath)

RECURSIVE FilterCmds(_, _)
FilterCmds(cmds, srcPath) ==
    IF cmds = <<>> THEN <<>>
    ELSE FilterArgs(Head(cmds), 2, srcPath) \o FilterCmds(Tail(cmds), srcPath)

(* argv before "-o", irPath and srcPath are appended: what the key hashes. *)
BuildArgv(job) ==
    <<job.compilerPath, "-S", "-emit-llvm", "-g", job.optLevel>>
        \o FilterCmds(job.cmds, job.srcPath)

(* The bytes hasher.update() receives for one string.  Strings are opaque  *)
(* units, except that "-Iinc" is the bytes of "-I" followed by those of    *)
(* "inc": update() puts no separator between two strings.                  *)
Bytes(str) == IF str = "-Iinc" THEN <<"-I", "inc">> ELSE <<str>>

RECURSIVE BytesOfAll(_)
BytesOfAll(strs) ==
    IF strs = <<>> THEN <<>>
    ELSE Bytes(Head(strs)) \o BytesOfAll(Tail(strs))

(* The MD5 digest, taken as collision-free: the key is the byte stream the *)
(* hasher saw (source bytes, every argv string, the tool version).         *)
CacheKey(job) ==
    job.srcBytes \o BytesOfAll(BuildArgv(job)) \o Bytes(job.toolVersion)

(* --- bounded inputs for the key --- *)
CmdPool(src) ==
    { <<"cc", "-DA", "-DB", "-c", src, "-o", "a.o">>,
      <<"cc", "-DB", "-DA", "-c", src, "-o", "a.o">>,
      <<"cc", "-o", "b.o", "-DA", "-c", "-DB", src>>,
      <<"cc", "-DA", "-DB", src>>,
      <<"cc", "-I", "inc", src>>,
      <<"cc", "-Iinc", src>>,
      <<"cc", "-DA", src, "-o">> }

KeyJobs ==
    { [srcPath |-> sp, srcBytes |-> sb, compilerPath |-> cp,
       optLevel |-> ol, cmds |-> <<cl>>, toolVersion |-> tv] :
        sp \in {"a.cpp", "b.cpp"}, sb \in {<<"int x;">>, <<"int y;">>},
        cp \in {"/usr/bin/clang++", "/usr/bin/clang++-18"},
        ol \in {"-O0", "-O2"},
        cl \in CmdPool("a.cpp") \cup CmdPool("b.cpp"),
        tv \in {"0.1.0", "0.2.0"} }

KeyIdle == kjobs = <<>> /\ kkeys = <<>>

KeyInit ==
    /\ kjobs \in {<<j1, j2>> : j1 \in KeyJobs, j2 \in KeyJobs}
    /\ kkeys = <<>>

ComputeKeys ==
    /\ kjobs # <<>>
    /\ kkeys = <<>>
    /\ kkeys' = <<CacheKey(kjobs[1]), CacheKey(kjobs[2])>>
    /\ UNCHANGED <<kjobs, refVars, mainVars, extVars>>

----------------------------------------------------------------------------
(* main(): the IR analysis pass.  A source of the run is                   *)
(* [srcPath, file, srcBytes, compiler, cmds, outcome, module, diags]:      *)
(* its path on the command line, the same path as the diagnostics'         *)
(* location.file spells it, its bytes, the compiler argv[0] resolves to    *)
(* ("" when none is found), its compile commands, how an emission of it    *)
(* ends ("ok", "fail" = non-zero exit, "timeout" = killed after 120 s),    *)
(* the module a complete artifact parses to, and the diagnostics the AST   *)
(* pass reports in it.                                                     *)

Max(a, b) == IF a > b THEN a ELSE b

Runs == DOMAIN pc

JobOf(s) ==
    [srcPath |-> s.srcPath, srcBytes |-> s.srcBytes,
     compilerPath |-> s.compiler, optLevel |-> input.optLevel,
     cmds |-> s.cmds, toolVersion |-> input.toolVersion]

HasJob(s) == s.cmds # <<>> /\ s.compiler # ""

(* The lowering compiler writes its output through a temporary file that   *)
(* it renames when done, unless the command line tells it to write the     *)
(* output file directly.                                                   *)
WritesInPlace(argv) == \E i \in DOMAIN argv : argv[i] = "-fno-temp-file"

(* ExecuteAndWait's return value for the three ways an emission ends.      *)
ExitCodeOf(outcome) ==
    CASE outcome = "ok" -> 0
      [] outcome = "fail" -> 1
      [] outcome = "timeout" -> 0 - 2

(* std::future<IRResult>: not ready, or ready with an exit code.           *)
Pending == [ready |-> FALSE, exitCode |-> 0 - 1]
Ready(code) == [ready |-> TRUE, exitCode |-> code]

(* if (!NoIR && ret == 0) *)
Start(r) ==
    /\ pc[r] = "start"
    /\ pc' = [pc EXCEPT ![r] = IF input.irPass THEN "build" ELSE "gate"]
    /\ refined' = [refined EXCEPT ![r] =
                      IF input.irPass THEN @ ELSE diagnostics[r]]
    /\ UNCHANGED <<extVars, refVars, keyVars, input, idx, jobs, sem, maxWorkers, worker, future, result,
                   profiles, diagnostics, registry, gateDropped, sawPartial,
                   output, irDisk, errDisk>>

(* One iteration of the loop over getSourcePathList(): skip the source, or *)
(* build its argv, hash it, test whether the keyed artifact exists and     *)
(* push the job.                                                           *)
BuildJob(r) ==
    /\ pc[r] = "build"
    /\ idx[r] <= Len(input.srcs)
    /\ LET s == input.srcs[idx[r]]
           key == CacheKey(JobOf(s))
       IN  IF HasJob(s)
           THEN /\ jobs' = [jobs EXCEPT ![r] =
                              Append(@, [src |-> idx[r],
                                         argv |-> BuildArgv(JobOf(s)),
                                         key |-> key,
                                         cached |-> irDisk[key] # "absent"])]
                /\ worker' = [worker EXCEPT ![r] = Append(@, "none")]
                /\ future' = [future EXCEPT ![r] = Append(@, Pending)]
                /\ sawPartial' = [sawPartial EXCEPT ![r] =
                                     @ \/ irDisk[key] = "partial"]
           ELSE UNCHANGED <<jobs, worker, future, sawPartial>>
    /\ idx' = [idx EXCEPT ![r] = @ + 1]
    /\ UNCHANGED <<extVars, refVars, keyVars, input, pc, sem, maxWorkers, result, profiles, diagnostics,
                   refined, registry, gateDropped, output, irDisk, errDisk>>

(* maxWorkers = min(max(1, hardware_concurrency()), jobs.size()).          *)
MaxWorkersFor(hw, n) == Min({Max(1, hw), n})

MakeSemaphore(r) ==
    /\ pc[r] = "build"
    /\ idx[r] > Len(input.srcs)
    /\ maxWorkers' = [maxWorkers EXCEPT ![r] =
                         MaxWorkersFor(input.hw, Len(jobs[r]))]
    /\ sem' = [sem EXCEPT ![r] = MaxWorkersFor(input.hw, Len(jobs[r]))]
    /\ pc' = [pc EXCEPT ![r] = IF jobs[r] = <<>> THEN "refine" ELSE "launch"]
    /\ idx' = [idx EXCEPT ![r] = 1]
    /\ UNCHANGED <<extVars, refVars, keyVars, input, jobs, worker, future, result, profiles, diagnostics,
                   refined, registry, gateDropped, sawPartial, output,
                   irDisk, errDisk>>

(* One iteration of the loop that fills futures: a ready promise for a     *)
(* cached job, std::async for the others.                                  *)
Launch(r) ==
    /\ pc[r] = "launch"
    /\ LET j == idx[r] IN
       IF jobs[r][j].cached
       THEN /\ future' = [future EXCEPT ![r][j] = Ready(0)]
            /\ UNCHANGED worker
       ELSE /\ worker' = [worker EXCEPT ![r][j] = "waiting"]
            /\ UNCHANGED future
    /\ IF idx[r] = Len(jobs[r])
       THEN /\ pc' = [pc EXCEPT ![r] = "collect"]
            /\ idx' = [idx EXCEPT ![r] = 1]
       ELSE /\ idx' = [idx EXCEPT ![r] = @ + 1]
            /\ UNCHANGED pc
    /\ UNCHANGED <<extVars, refVars, keyVars, input, jobs, sem, maxWorkers, result, profiles,
                   diagnostics, refined, registry, gateDropped, sawPartial,
                   output, irDisk, errDisk>>

(* The emission worker.  sem.acquire(): a faulty variant that does not     *)
(* wait for a permit comes first.                                          *)
AcquireWithoutPermit(permits) == TRUE

CanAcquire(permits) == permits > 0

(* sem.acquire() returns and ExecuteAndWait spawns the compiler with its   *)
(* stderr redirected to errFile.                                           *)
WorkerAcquire(r, j) ==
    /\ worker[r][j] = "waiting"
    /\ CanAcquire(sem[r])
    /\ sem' = [sem EXCEPT ![r] = @ - 1]
    /\ worker' = [worker EXCEPT ![r][j] = "running"]
    /\ errDisk' = [errDisk EXCEPT ![jobs[r][j].key] = TRUE]
    /\ UNCHANGED <<extVars, refVars, keyVars, input, pc, idx, jobs, maxWorkers, future, result, profiles,
                   diagnostics, refined, registry, gateDropped, sawPartial,
                   output, irDisk>>

(* The compiler starts to write its output: into irFile itself when it     *)
(* writes in place, into a temporary file otherwise.  An emission that     *)
(* fails never gets this far.                                              *)
CompilerWrite(r, j) ==
    /\ worker[r][j] = "running"
    /\ input.srcs[jobs[r][j].src].outcome # "fail"
    /\ worker' = [worker EXCEPT ![r][j] = "writing"]
    /\ irDisk' = IF WritesInPlace(jobs[r][j].argv)
                 THEN [irDisk EXCEPT ![jobs[r][j].key] = "partial"]
                 ELSE irDisk
    /\ UNCHANGED <<extVars, refVars, keyVars, input, pc, idx, jobs, sem, maxWorkers, future, result,
                   profiles, diagnostics, refined, registry, gateDropped,
                   sawPartial, output, errDisk>>

(* sem.release().  A faulty variant that gives no permit back comes first. *)
ReleaseNothing(permits) == permits

Release(permits) == permits + 1

(* The compiler exits or is killed; ExecuteAndWait returns; sem.release(); *)
(* the future becomes ready.                                               *)
WorkerFinish(r, j) ==
    LET outcome == input.srcs[jobs[r][j].src].outcome IN
    /\ \/ worker[r][j] = "running" /\ outcome = "fail"
       \/ worker[r][j] = "writing"
    /\ irDisk' = IF outcome = "ok"
                 THEN [irDisk EXCEPT ![jobs[r][j].key] = "complete"]
                 ELSE irDisk
    /\ sem' = [sem EXCEPT ![r] = Release(@)]
    /\ worker' = [worker EXCEPT ![r][j] = "done"]
    /\ future' = [future EXCEPT ![r][j] = Ready(ExitCodeOf(outcome))]
    /\ UNCHANGED <<extVars, refVars, keyVars, input, pc, idx, jobs, maxWorkers, result, profiles,
                   diagnostics, refined, registry, gateDropped, sawPartial,
                   output, errDisk>>

(* futures[i].get(): blocks until the future is ready.  A faulty variant   *)
(* that does not wait comes first.                                         *)
GetWithoutWaiting(f) == TRUE

FutureReady(f) == f.ready

Get(r) ==
    /\ pc[r] = "collect"
    /\ FutureReady(future[r][idx[r]])
    /\ result' = [result EXCEPT ![r] = future[r][idx[r]].exitCode]
    /\ pc' = [pc EXCEPT ![r] = "parse"]
    /\ UNCHANGED <<extVars, refVars, keyVars, input, idx, jobs, sem, maxWorkers, worker, future,
                   profiles, diagnostics, refined, registry, gateDropped,
                   sawPartial, output, irDisk, errDisk>>

(* The rest of one iteration of the collect loop: log a failure, or parse  *)
(* irFile and profile the module when it parses; then remove the IR of a   *)
(* failed fresh emission and the err file.                                 *)
ParseAndCleanup(r) ==
    /\ pc[r] = "parse"
    /\ LET job == jobs[r][idx[r]]
           onDisk == irDisk[job.key]
       IN  /\ IF result[r] = 0
              THEN /\ profiles' = [profiles EXCEPT ![r] =
                          IF onDisk = "complete"
                          THEN analyzeModule(@, input.srcs[job.src].module)
                          ELSE @]
                   /\ sawPartial' = [sawPartial EXCEPT ![r] =
                                        @ \/ onDisk = "partial"]
              ELSE UNCHANGED <<profiles, sawPartial>>
           /\ irDisk' = IF ~job.cached /\ result[r] # 0
                        THEN [irDisk EXCEPT ![job.key] = "absent"]
                        ELSE irDisk
           /\ errDisk' = [errDisk EXCEPT ![job.key] = FALSE]
    /\ IF idx[r] = Len(jobs[r])
       THEN /\ pc' = [pc EXCEPT ![r] = "refine"]
            /\ UNCHANGED idx
       ELSE /\ pc' = [pc EXCEPT ![r] = "collect"]
            /\ idx' = [idx EXCEPT ![r] = @ + 1]
    /\ UNCHANGED <<extVars, refVars, keyVars, input, jobs, sem, maxWorkers, worker, future, result,
                   diagnostics, refined, registry, gateDropped, output>>

(* if (!irAnalyzer.profiles().empty()) refiner.refine(diagnostics); *)
Refine(r) ==
    /\ pc[r] = "refine"
    /\ diagnostics' = [diagnostics EXCEPT ![r] =
                          IF profiles[r] # <<>> THEN refine(@, profiles[r])
                          ELSE @]
    /\ refined' = [refined EXCEPT ![r] = diagnostics'[r]]
    /\ pc' = [pc EXCEPT ![r] = "gate"]
    /\ UNCHANGED <<extVars, refVars, keyVars, input, idx, jobs, sem, maxWorkers, worker, future, result,
                   profiles, registry, gateDropped, sawPartial, output,
                   irDisk, errDisk>>

(* HypothesisConstructor::mapRuleToHazardClass *)
mapRuleToHazardClass(ruleID) ==
    CASE ruleID = "FL001" -> "CacheGeometry"
      [] ruleID = "FL002" -> "FalseSharing"
      [] ruleID = "FL010" -> "AtomicOrdering"
      [] ruleID = "FL011" -> "AtomicContention"
      [] ruleID = "FL012" -> "LockContention"
      [] ruleID = "FL020" -> "HeapAllocation"
      [] ruleID = "FL021" -> "StackPressure"
      [] ruleID = "FL030" -> "VirtualDispatch"
      [] ruleID = "FL031" -> "StdFunction"
      [] ruleID = "FL040" -> "GlobalState"
      [] ruleID = "FL041" -> "ContendedQueue"
      [] ruleID = "FL050" -> "DeepConditional"
      [] ruleID = "FL060" -> "NUMALocality"
      [] ruleID = "FL061" -> "CentralizedDispatch"
      [] ruleID = "FL090" -> "HazardAmplification"
      [] OTHER -> "CacheGeometry"

(* CalibrationFeedbackStore::isKnownFalsePositive: the feature vector is   *)
(* not looked at; an entry of the class with three refutations decides.    *)
RefutationsNeeded == 3

isKnownFalsePositive(reg, hc) ==
    \E i \in DOMAIN reg :
        reg[i].hazardClass = hc /\ reg[i].refutationCount >= RefutationsNeeded

(* CalibrationFeedbackStore::registerFalsePositive *)
registerFalsePositive(reg, hc) ==
    IF \E i \in DOMAIN reg : reg[i].hazardClass = hc
    THEN [i \in DOMAIN reg |->
            IF reg[i].hazardClass = hc
               /\ \A k \in 1..(i - 1) : reg[k].hazardClass # hc
            THEN [reg[i] EXCEPT !.refutationCount = @ + 1]
            ELSE reg[i]]
    ELSE Append(reg, [hazardClass |-> hc, refutationCount |-> 1])

(* The predicate of the calibration gate's remove_if.  A faulty variant    *)
(* without the safety rail comes first.                                    *)
GateDropsWithoutRail(d, reg) ==
    isKnownFalsePositive(reg, mapRuleToHazardClass(d.ruleID))

GateDrops(d, reg) ==
    LET highSev == d.severity = Critical \/ d.severity = High
        proven  == d.evidenceTier = Proven
    IN  IF highSev /\ proven THEN FALSE
        ELSE isKnownFalsePositive(reg, mapRuleToHazardClass(d.ruleID))

(* The calibration gate: runs when --calibration-store is given.          *)
Gate(r) ==
    /\ pc[r] = "gate"
    /\ IF input.calStore
       THEN /\ diagnostics' = [diagnostics EXCEPT ![r] =
                   SelectSeq(@, LAMBDA d : ~GateDrops(d, registry))]
            /\ gateDropped' = [gateDropped EXCEPT ![r] =
                   SelectSeq(diagnostics[r], LAMBDA d : GateDrops(d, registry))]
       ELSE UNCHANGED <<diagnostics, gateDropped>>
    /\ pc' = [pc EXCEPT ![r] = "filter"]
    /\ UNCHANGED <<extVars, refVars, keyVars, input, idx, jobs, sem, maxWorkers, worker, future, result,
                   profiles, refined, registry, sawPartial, output,
                   irDisk, errDisk>>

(* The predicate of the second remove_if, negated.  A faulty variant that  *)
(* does not look at the suppression flag comes first.                      *)
FilterKeepsSuppressed(d, minSeverity, minTier) ==
    ~(d.severity < minSeverity) /\ ~(d.evidenceTier > minTier)

FilterKeeps(d, minSeverity, minTier) ==
    /\ ~d.suppressed
    /\ ~(d.severity < minSeverity)
    /\ ~(d.evidenceTier > minTier)

Filter(r) ==
    /\ pc[r] = "filter"
    /\ diagnostics' = [diagnostics EXCEPT ![r] =
          SelectSeq(@, LAMBDA d :
                FilterKeeps(d, input.minSeverity, input.minTier))]
    /\ pc' = [pc EXCEPT ![r] = "emit"]
    /\ UNCHANGED <<extVars, refVars, keyVars, input, idx, jobs, sem, maxWorkers, worker, future, result,
                   profiles, refined, registry, gateDropped, sawPartial,
                   output, irDisk, errDisk>>

(* Position of a path in the order of std::string's operator<.            *)
FileOrder(file) ==
    CASE file = <<"src", "a.cpp">> -> 1
      [] file = <<"src", "b.cpp">> -> 2
      [] file = <<"src", "c.cpp">> -> 3
      [] file = <<"src", "q.h">>   -> 4
      [] OTHER -> 0

(* The comparator of the final sort.  A faulty variant that compares the   *)
(* severities alone comes first.                                           *)
SortsBeforeBySeverity(a, b) == a.severity > b.severity

SortsBefore(a, b) ==
    IF a.severity # b.severity THEN a.severity > b.severity
    ELSE IF a.file # b.file THEN FileOrder(a.file) < FileOrder(b.file)
    ELSE a.line < b.line

(* std::sort on a vector of at most 16 elements is an insertion sort with  *)
(* a strict comparison.                                                    *)
RECURSIVE InsertSorted(_, _)
InsertSorted(sorted, d) ==
    IF sorted = <<>> THEN <<d>>
    ELSE IF SortsBefore(d, sorted[Len(sorted)])
         THEN Append(InsertSorted(SubSeq(sorted, 1, Len(sorted) - 1), d),
                     sorted[Len(sorted)])
         ELSE Append(sorted, d)

RECURSIVE SortDiagnostics(_)
SortDiagnostics(ds) ==
    IF ds = <<>> THEN <<>>
    ELSE InsertSorted(SortDiagnostics(SubSeq(ds, 1, Len(ds) - 1)),
                      ds[Len(ds)])

(* Sort, format and write the diagnostics. *)
Emit(r) ==
    /\ pc[r] = "emit"
    /\ diagnostics' = [diagnostics EXCEPT ![r] = SortDiagnostics(@)]
    /\ output' = [output EXCEPT ![r] = SortDiagnostics(diagnostics[r])]
    /\ pc' = [pc EXCEPT ![r] = "done"]
    /\ UNCHANGED <<extVars, refVars, keyVars, input, idx, jobs, sem, maxWorkers, worker, future, result,
                   profiles, refined, registry, gateDropped, sawPartial,
                   irDisk, errDisk>>

----------------------------------------------------------------------------
(* Bounded inputs of a run.                                                *)

MaxSrcs        == 2   \* most sources on the command line of one run
MaxSharedSrcs  == 1   \* most sources of two runs that share the cache
MaxHw          == 2   \* largest hardware_concurrency() explored (0 = unknown)
MaxPostDiags   == 2   \* longest vector handed to the tail of main()
MaxRefutations == 3   \* most refutations registered for one hazard class

FileC == <<"src", "c.cpp">>

Source(srcPath, file, srcBytes, compiler, cmds, outcome, module, diags) ==
    [srcPath |-> srcPath, file |-> file, srcBytes |-> srcBytes,
     compiler |-> compiler, cmds |-> cmds, outcome |-> outcome,
     module |-> module, diags |-> diags]

\* a.cpp defines f (IRf) and lowers without trouble.
SrcA == Source("a.cpp", FileA, <<"int x;">>, "/usr/bin/clang++",
               << <<"clang++", "-DA", "-c", "a.cpp", "-o", "a.o">> >>,
               "ok", <<IRf>>,
               <<Diag("FL010", High, 85, Likely, FileA, 10, <<>>, EvFn(FnF))>>)
\* b.cpp has a static f of its own; its command line makes the compiler
\* write the output file directly.
SrcB == Source("b.cpp", FileB, <<"int y;">>, "/usr/bin/clang++",
               << <<"clang++", "-fno-temp-file", "-c", "b.cpp">> >>,
               "ok", <<IRfOther>>,
               <<Diag("FL020", Critical, 75, Likely, FileB, 20, FnF, EvFn(FnF))>>)
\* c.cpp parses for the AST pass but its emission exits non-zero.
SrcC == Source("c.cpp", FileC, <<"int z;">>, "/usr/bin/clang++",
               << <<"clang++", "-DB", "-c", "c.cpp">> >>,
               "fail", <<>>,
               <<Diag("FL010", High, 85, Likely, FileC, 10, <<>>, EvFn(FnF)),
                 Diag("FL001", High, 72, Proven, FileC, 3, <<>>, <<>>)>>)
\* q.h handed over as a source: its emission is killed after 120 s.
SrcQ == Source("q.h", FileHdr, <<"int q;">>, "/usr/bin/clang++",
               << <<"clang++", "-fno-temp-file", "q.h">> >>,
               "timeout", <<>>,
               <<Diag("FL090", Critical, 90, Speculative, FileHdr, 3, <<>>, <<>>)>>)
\* a source whose argv[0] resolves to no executable and no clang++ is on PATH.
SrcNoCompiler ==
    Source("b.cpp", FileB, <<"int y;">>, "",
           << <<"faultline", "b.cpp">> >>, "ok", <<>>, <<>>)

SrcPool == {SrcA, SrcB, SrcC, SrcQ, SrcNoCompiler}

SrcSeqs(n) ==
    {q \in SeqsUpTo(SrcPool, n) \ {<<>>} :
        \A i, k \in DOMAIN q : i # k => q[i].srcPath # q[k].srcPath}

RECURSIVE AstDiagnostics(_)
AstDiagnostics(srcs) ==
    IF srcs = <<>> THEN <<>>
    ELSE srcs[1].diags \o AstDiagnostics(Tail(srcs))

Input(srcs, hw, irPass, calStore, minSeverity, minTier) ==
    [srcs |-> srcs, hw |-> hw, irPass |-> irPass, calStore |-> calStore,
     minSeverity |-> minSeverity, minTier |-> minTier,
     optLevel |-> "-O0", toolVersion |-> "0.1.0"]

KeysOf(srcs) ==
    {CacheKey([srcPath |-> srcs[i].srcPath, srcBytes |-> srcs[i].srcBytes,
               compilerPath |-> srcs[i].compiler, optLevel |-> "-O0",
               cmds |-> srcs[i].cmds, toolVersion |-> "0.1.0"]) :
        i \in {k \in DOMAIN srcs : HasJob(srcs[k])}}

(* The cache as earlier runs left it: an artifact is there in full or not  *)
(* at all, and only for a source that lowers.                              *)
CacheStates(srcs) ==
    {d \in [KeysOf(srcs) -> {"absent", "complete"}] :
        \A i \in DOMAIN srcs :
            (HasJob(srcs[i]) /\ srcs[i].outcome # "ok")
                => d[CacheKey([srcPath |-> srcs[i].srcPath,
                               srcBytes |-> srcs[i].srcBytes,
                               compilerPath |-> srcs[i].compiler,
                               optLevel |-> "-O0", cmds |-> srcs[i].cmds,
                               toolVersion |-> "0.1.0"])] = "absent"}

(* main() entered by every run of the set rs, after the AST pass.          *)
MainInit(rs, in) ==
    /\ input = in
    /\ pc = [r \in rs |-> "start"]
    /\ idx = [r \in rs |-> 1]
    /\ jobs = [r \in rs |-> <<>>]
    /\ sem = [r \in rs |-> 0]
    /\ maxWorkers = [r \in rs |-> 0]
    /\ worker = [r \in rs |-> <<>>]
    /\ future = [r \in rs |-> <<>>]
    /\ result = [r \in rs |-> 0]
    /\ profiles = [r \in rs |-> <<>>]
    /\ diagnostics = [r \in rs |-> AstDiagnostics(in.srcs)]
    /\ refined = [r \in rs |-> <<>>]
    /\ registry = <<>>
    /\ gateDropped = [r \in rs |-> <<>>]
    /\ sawPartial = [r \in rs |-> FALSE]
    /\ output = [r \in rs |-> <<>>]
    /\ irDisk \in CacheStates(in.srcs)
    /\ errDisk = [k \in KeysOf(in.srcs) |-> FALSE]

DriverInit ==
    \E srcs \in SrcSeqs(MaxSrcs), hw \in 0..MaxHw, irPass \in BOOLEAN,
       calStore \in BOOLEAN, minSeverity \in {Informational, Critical} :
        MainInit({1}, Input(srcs, hw, irPass, calStore, minSeverity,
                            Speculative))

TwoRunsInit ==
    \E srcs \in SrcSeqs(MaxSharedSrcs), hw \in 0..MaxHw :
        MainInit({1, 2}, Input(srcs, hw, TRUE, FALSE, Informational,
                               Speculative))

MainNext ==
    \/ \E r \in Runs : Start(r)
    \/ \E r \in Runs : BuildJob(r)
    \/ \E r \in Runs : MakeSemaphore(r)
    \/ \E r \in Runs : Launch(r)
    \/ \E r \in Runs : \E j \in DOMAIN jobs[r] : WorkerAcquire(r, j)
    \/ \E r \in Runs : \E j \in DOMAIN jobs[r] : CompilerWrite(r, j)
    \/ \E r \in Runs : \E j \in DOMAIN jobs[r] : WorkerFinish(r, j)
    \/ \E r \in Runs : Get(r)
    \/ \E r \in Runs : ParseAndCleanup(r)
    \/ \E r \in Runs : Refine(r)
    \/ \E r \in Runs : Gate(r)
    \/ \E r \in Runs : Filter(r)
    \/ \E r \in Runs : Emit(r)

(* The tail of main() (refine, calibration gate, filter, sort) entered     *)
(* with any diagnostics and any profile map, against a calibration store   *)
(* that someone has filled through registerFalsePositive.  (The store      *)
(* main() constructs is empty: the constructor reads nothing.)             *)
PostDiagPool ==
    { Diag("FL021", High,     80, Likely,      FileB,   8,  FnF,  EvFrame(2100)),
      Diag("FL021", High,     80, Likely,      FileB,   8,  FnQf, EvFrame(3000)),
      Diag("FL030", High,     80, Proven,      FileA,   12, <<>>, EvCaller(FnF)),
      Diag("FL010", High,     85, Likely,      FileA,   10, <<>>, EvFn(FnF)),
      Diag("FL001", Critical, 90, Proven,      FileHdr, 3,  <<>>, <<>>) }

PostModules == {<<>>, <<IRnsQf>>, <<IRQf, IRg>>}

HazardPool == {"VirtualDispatch", "AtomicOrdering"}

PostInit ==
    \E ds \in SeqsUpTo(PostDiagPool, MaxPostDiags) \ {<<>>},
       M \in PostModules, calStore \in BOOLEAN,
       minSeverity \in {Informational, Medium, High, Critical},
       minTier \in {Proven, Likely, Speculative} :
        /\ input = Input(<<>>, 1, TRUE, calStore, minSeverity, minTier)
        /\ pc = <<"refine">>
        /\ idx = <<1>>
        /\ jobs = << <<>> >>
        /\ sem = <<0>>
        /\ maxWorkers = <<0>>
        /\ worker = << <<>> >>
        /\ future = << <<>> >>
        /\ result = <<0>>
        /\ profiles = <<analyzeModule(<<>>, M)>>
        /\ diagnostics = <<ds>>
        /\ refined = << <<>> >>
        /\ registry = <<>>
        /\ gateDropped = << <<>> >>
        /\ sawPartial = <<FALSE>>
        /\ output = << <<>> >>
        /\ irDisk = <<>>
        /\ errDisk = <<>>

RegisterFalsePositive(hc) ==
    /\ \A r \in Runs : pc[r] = "refine"
    /\ \A i \in DOMAIN registry :
          registry[i].hazardClass = hc
              => registry[i].refutationCount < MaxRefutations
    /\ registry' = registerFalsePositive(registry, hc)
    /\ UNCHANGED <<extVars, refVars, keyVars, input, pc, idx, jobs, sem, maxWorkers,
                   worker, future, result, profiles, diagnostics, refined,
                   gateDropped, sawPartial, output, irDisk, errDisk>>

PostNext ==
    \/ \E hc \in HazardPool : RegisterFalsePositive(hc)
    \/ \E r \in Runs : Refine(r)
    \/ \E r \in Runs : Gate(r)
    \/ \E r \in Runs : Filter(r)
    \/ \E r \in Runs : Emit(r)

----------------------------------------------------------------------------
(* main() from its first statement to its return: the command line, the    *)
(* run of the ClangTool, the IR pass as one step, the calibration gate,    *)
(* the filter and the sort as one step, and the emission.                  *)

Args(valid, noIR, calStore, outputFile, minSeverity) ==
    [valid |-> valid, noIR |-> noIR, calStore |-> calStore,
     outputFile |-> outputFile, minSeverity |-> minSeverity]

(* Output files: none (standard output), one that can be opened and one    *)
(* in a directory that does not exist.                                     *)
OutputFiles == {"", "out.json", "missing/out.json"}

OpensForWriting(outputFile) == outputFile = "out.json"

MaxToolDiags == 2

NotReturned == 0 - 1

ExitIdle ==
    /\ xpc = "idle" /\ xargs = <<>> /\ xret = 0 /\ xdiags = <<>>
    /\ xwritten = <<>> /\ exitCode = NotReturned

ExitInit ==
    /\ \E valid, noIR, calStore \in BOOLEAN, outputFile \in OutputFiles,
          minSeverity \in {Informational, Critical} :
          xargs = Args(valid, noIR, calStore, outputFile, minSeverity)
    /\ xpc = "start" /\ xret = 0 /\ xdiags = <<>>
    /\ xwritten = <<>> /\ exitCode = NotReturned

(* CommonOptionsParser::create and its error branch. *)
CreateParser ==
    /\ xpc = "start"
    /\ IF xargs.valid
       THEN /\ xpc' = "parsed"
            /\ UNCHANGED exitCode
       ELSE /\ xpc' = "returned"
            /\ exitCode' = 1
    /\ UNCHANGED <<xargs, xret, xdiags, xwritten>>
    /\ UNCHANGED <<ixVars, escVars, mapVars, storeVars, ruleVars, refVars, keyVars,
                   mainVars>>

(* tool.run: 0 when every file was processed, 1 when some file had an      *)
(* error, 2 when some file was skipped; the rules have filled the vector   *)
(* from the files that were parsed.                                        *)
RunTool ==
    /\ xpc = "parsed"
    /\ xret' \in 0..2
    /\ xdiags' \in SeqsUpTo(PostDiagPool, MaxToolDiags)
    /\ xpc' = "ran"
    /\ UNCHANGED <<xargs, xwritten, exitCode>>
    /\ UNCHANGED <<ixVars, escVars, mapVars, storeVars, ruleVars, refVars, keyVars,
                   mainVars>>

(* The IR pass, entered when IR is wanted and the tool returned 0. *)
IRPass ==
    /\ xpc = "ran"
    /\ IF ~xargs.noIR /\ xret = 0
       THEN \E M \in PostModules :
               xdiags' = IF analyzeModule(<<>>, M) # <<>>
                         THEN refine(xdiags, analyzeModule(<<>>, M))
                         ELSE xdiags
       ELSE UNCHANGED xdiags
    /\ xpc' = "refined"
    /\ UNCHANGED <<xargs, xret, xwritten, exitCode>>
    /\ UNCHANGED <<ixVars, escVars, mapVars, storeVars, ruleVars, refVars, keyVars,
                   mainVars>>

(* The calibration gate against the store main() has just constructed,     *)
(* the filter and the sort.                                                *)
GateFilterSort ==
    /\ xpc = "refined"
    /\ LET gated == IF xargs.calStore
                    THEN SelectSeq(xdiags, LAMBDA d : ~GateDrops(d, <<>>))
                    ELSE xdiags
           kept == SelectSeq(gated, LAMBDA d :
                       FilterKeeps(d, xargs.minSeverity, Speculative))
       IN  xdiags' = SortDiagnostics(kept)
    /\ xpc' = "sorted"
    /\ UNCHANGED <<xargs, xret, xwritten, exitCode>>
    /\ UNCHANGED <<ixVars, escVars, mapVars, storeVars, ruleVars, refVars, keyVars,
                   mainVars>>

(* Format, emit and return. *)
EmitAndReturn ==
    /\ xpc = "sorted"
    /\ IF xargs.outputFile # "" /\ ~OpensForWriting(xargs.outputFile)
       THEN /\ exitCode' = 1
            /\ UNCHANGED xwritten
       ELSE /\ xwritten' = xdiags
            /\ exitCode' = IF xret = 0
                           THEN (IF xdiags = <<>> THEN 0 ELSE 1)
                           ELSE 2
    /\ xpc' = "returned"
    /\ UNCHANGED <<xargs, xret, xdiags>>
    /\ UNCHANGED <<ixVars, escVars, mapVars, storeVars, ruleVars, refVars, keyVars,
                   mainVars>>

ExitNext ==
    CreateParser \/ RunTool \/ IRPass \/ GateFilterSort \/ EmitAndReturn

----------------------------------------------------------------------------
(* EscapeAnalysis and CacheLineMap on their own.  A QualType holds what    *)
(* the two classes ask of a type: whether its canonical type is a C11      *)
(* _Atomic, the qualified name of the record it resolves to through        *)
(* aliases and references ("" when it resolves to none), the searched      *)
(* words its canonical spelling contains, and its volatile and const       *)
(* qualifiers.                                                             *)

QualType(c11Atomic, recordName, canon, volatileQualified, constQualified) ==
    [c11Atomic |-> c11Atomic, record |-> recordName, canon |-> canon,
     volatileQualified |-> volatileQualified,
     constQualified |-> constQualified]

TInt == QualType(FALSE, "", {}, FALSE, FALSE)
TConstInt == QualType(FALSE, "", {}, FALSE, TRUE)
TC11Atomic == QualType(TRUE, "", {}, FALSE, FALSE)
TStdAtomic == QualType(FALSE, "std::atomic", {"atomic"}, FALSE, FALSE)
TAtomicPointer == QualType(FALSE, "", {"atomic"}, FALSE, FALSE)
TMutex == QualType(FALSE, "std::mutex", {}, FALSE, FALSE)
TPthreadMutex ==
    QualType(FALSE, "pthread_mutex_t", {"pthread_mutex_t"}, FALSE, FALSE)
TSharedPtr == QualType(FALSE, "std::shared_ptr", {}, FALSE, FALSE)
TVolatileInt == QualType(FALSE, "", {}, TRUE, FALSE)
TInner == QualType(FALSE, "Inner", {}, FALSE, FALSE)
\* std::function<void()>, and void (*)(int), whose canonical spelling
\* holds "(*)".
TStdFunction == QualType(FALSE, "std::function", {}, FALSE, FALSE)
TFunctionPointer == QualType(FALSE, "", {"(*)"}, FALSE, FALSE)

(* EscapeAnalysis::isAtomicType *)
isAtomicType(QT) ==
    \/ QT.c11Atomic
    \/ QT.record \in {"std::atomic", "std::atomic_ref"}

(* EscapeAnalysis::isSyncType *)
isSyncType(QT) ==
    \/ QT.record \in
          {"std::mutex", "std::recursive_mutex", "std::shared_mutex",
           "std::timed_mutex", "std::recursive_timed_mutex",
           "std::shared_timed_mutex", "std::condition_variable",
           "std::condition_variable_any", "std::counting_semaphore",
           "std::binary_semaphore", "std::latch", "std::barrier"}
    \/ QT.canon \cap {"pthread_mutex_t", "pthread_spinlock_t",
                      "pthread_rwlock_t", "pthread_cond_t", "sem_t"} # {}

(* EscapeAnalysis::isSharedOwnershipType *)
isSharedOwnershipType(QT) ==
    QT.record \in {"std::shared_ptr", "std::weak_ptr"}

(* A CXXRecordDecl as EscapeAnalysis reads it: its fields' types and its   *)
(* base records.                                                           *)
CXXRecordDecl(isCompleteDefinition, fields, bases) ==
    [isCompleteDefinition |-> isCompleteDefinition, fields |-> fields,
     bases |-> bases]

RECURSIVE hasAtomicMembers(_)
hasAtomicMembers(RD) ==
    IF ~RD.isCompleteDefinition THEN FALSE
    ELSE \/ \E k \in DOMAIN RD.fields : isAtomicType(RD.fields[k])
         \/ \E b \in DOMAIN RD.bases : hasAtomicMembers(RD.bases[b])

RECURSIVE hasSyncPrimitives(_)
hasSyncPrimitives(RD) ==
    IF ~RD.isCompleteDefinition THEN FALSE
    ELSE \/ \E k \in DOMAIN RD.fields : isSyncType(RD.fields[k])
         \/ \E b \in DOMAIN RD.bases : hasSyncPrimitives(RD.bases[b])

RECURSIVE hasSharedOwnershipMembers(_)
hasSharedOwnershipMembers(RD) ==
    IF ~RD.isCompleteDefinition THEN FALSE
    ELSE \/ \E k \in DOMAIN RD.fields : isSharedOwnershipType(RD.fields[k])
         \/ \E b \in DOMAIN RD.bases :
               hasSharedOwnershipMembers(RD.bases[b])

RECURSIVE hasVolatileMembers(_)
hasVolatileMembers(RD) ==
    IF ~RD.isCompleteDefinition THEN FALSE
    ELSE \/ \E k \in DOMAIN RD.fields : RD.fields[k].volatileQualified
         \/ \E b \in DOMAIN RD.bases : hasVolatileMembers(RD.bases[b])

(* EscapeAnalysis::hasCallbackMembers: the record's own fields only.  No   *)
(* function of the repository calls it.                                    *)
hasCallbackMembers(RD) ==
    IF ~RD.isCompleteDefinition THEN FALSE
    ELSE \E k \in DOMAIN RD.fields :
            \/ "(*)" \in RD.fields[k].canon
            \/ RD.fields[k].record = "std::function"

(* EscapeAnalysis::mayEscapeThread.  A faulty variant that judges a record *)
(* by the field declared last comes first.                                 *)
mayEscapeThreadByLastField(RD) ==
    /\ RD.isCompleteDefinition
    /\ RD.fields # <<>>
    /\ LET QT == RD.fields[Len(RD.fields)]
       IN  isAtomicType(QT) \/ isSyncType(QT) \/ isSharedOwnershipType(QT)
              \/ QT.volatileQualified

mayEscapeThread(RD) ==
    \/ hasAtomicMembers(RD)
    \/ hasSyncPrimitives(RD)
    \/ hasSharedOwnershipMembers(RD)
    \/ hasVolatileMembers(RD)

----------------------------------------------------------------------------
(* The rule engine: FaultlineASTConsumer::HandleTranslationUnit, the       *)
(* Hot-Path Oracle and the function-level rules.                           *)
(*                                                                         *)
(* A translation unit is the sequence of its top-level declarations.  A    *)
(* function declaration is [node, name, file, line, systemHeader, hasBody, *)
(* annotations, loopKind, body, locals, params]; its body is the sequence  *)
(* of the statements a RecursiveASTVisitor visits, in visiting order, each *)
(* with the loop depth (inLoop), the chain of enclosing compound           *)
(* statements (block) and the if-nesting depth it is visited at.  A type   *)
(* or class name the rules search with find() is kept as the set of the    *)
(* searched words it contains.                                             *)

Stmt(node, name, words, inLoop, line) ==
    [node |-> node, name |-> name, words |-> words, inLoop |-> inLoop,
     line |-> line, orderArg |-> "", isVirtual |-> FALSE,
     objType |-> "record", block |-> <<1>>, depth |-> 0, cases |-> 0]

FunctionDecl(name, file, line, annotations, loopKind, body, locals, params) ==
    [node |-> "FunctionDecl", name |-> name, file |-> file, line |-> line,
     systemHeader |-> FALSE, hasBody |-> TRUE, annotations |-> annotations,
     loopKind |-> loopKind, body |-> body, locals |-> locals,
     params |-> params]

(* fnmatch(pattern, string, 0) for the patterns in use: a literal name, or *)
(* a literal prefix followed by "*".                                       *)
fnmatch(pat, str) ==
    \/ pat = str
    \/ /\ pat # <<>> /\ pat[Len(pat)] = "*"
       /\ Len(str) >= Len(pat) - 1
       /\ SubSeq(str, 1, Len(pat) - 1) = SubSeq(pat, 1, Len(pat) - 1)

(* HotPathOracle::hasHotAnnotation *)
hasHotAnnotation(FD) == "faultline_hot" \in FD.annotations

(* HotPathOracle::matchesConfigPattern *)
matchesConfigPattern(cfg, FD) ==
    \/ \E pat \in cfg.hotFunctionPatterns : fnmatch(pat, FD.name)
    \/ FD.line > 0 /\ \E pat \in cfg.hotFilePatterns : fnmatch(pat, FD.file)

(* HotPathOracle::isFunctionHot: the answer and the hot cache after the    *)
(* call.  A declaration is known by its index in the translation unit.     *)
isFunctionHot(cfg, hotCache, i, FD) ==
    IF i \in hotCache THEN [hot |-> TRUE, hotCache |-> hotCache]
    ELSE IF hasHotAnnotation(FD) \/ matchesConfigPattern(cfg, FD)
    THEN [hot |-> TRUE, hotCache |-> hotCache \cup {i}]
    ELSE [hot |-> FALSE, hotCache |-> hotCache]

(* What a rule hands back: the diagnostics it pushed and the hot cache. *)
Analyzed(out, hotCache) == [out |-> out, hotCache |-> hotCache]

YesNo(b) == IF b THEN <<"yes">> ELSE <<"no">>

WithEscalations(diag, escs) == [diag EXCEPT !.escalations = escs]

(* if (!FD || !FD->doesThisDeclarationHaveABody()) return; *)
IsFunctionWithBody(D) == D.node = "FunctionDecl" /\ D.hasBody

(* SeqCstVisitor of FL010: the sites it records. *)
AtomicOps == {"load", "store", "exchange", "compare_exchange_weak",
              "compare_exchange_strong", "fetch_add", "fetch_sub",
              "fetch_and", "fetch_or", "fetch_xor", "notify_one",
              "notify_all", "wait"}
WeakOrders == {"relaxed", "acquire", "release", "acq_rel", "consume"}
CompoundOperators == {"operator++", "operator--", "operator+=", "operator-=",
                      "operator&=", "operator|=", "operator^="}

SeqCstVisitor(body) ==
    SelectSeq(body, LAMBDA s :
        \/ /\ s.node = "CXXMemberCallExpr" /\ s.name \in AtomicOps
           /\ "atomic" \in s.words /\ s.orderArg \notin WeakOrders
        \/ /\ s.node = "CXXOperatorCallExpr" /\ "atomic" \in s.words
           /\ s.name \in CompoundOperators)

opClass(s) ==
    IF s.node = "CXXMemberCallExpr" /\ s.name = "load" THEN "Load"
    ELSE IF s.node = "CXXMemberCallExpr" /\ s.name = "store" THEN "Store"
    ELSE "RMW"

(* FL010_OverlyStrongOrdering::analyze, the diagnostic of one site. *)
FL010Diag(FD, site, atomicCount) ==
    LET isStore == opClass(site) = "Store"
        inLoop  == site.inLoop > 0
        escs ==
            (IF inLoop /\ isStore
             THEN <<Esc("seq_cst store inside loop", "", 0, 0, <<>>)>>
             ELSE IF inLoop
             THEN <<Esc("seq_cst RMW inside loop", "", 0, 0, <<>>)>>
             ELSE <<>>)
            \o (IF atomicCount > 1
                THEN <<Esc("seq_cst operations in function", "",
                           atomicCount, 0, <<>>)>>
                ELSE <<>>)
    IN  WithEscalations(
          Diag("FL010",
               IF inLoop /\ isStore THEN Critical
               ELSE IF isStore \/ inLoop THEN High ELSE Medium,
               IF inLoop /\ isStore THEN 90
               ELSE IF isStore THEN 85 ELSE 55,
               IF isStore THEN Likely ELSE Speculative,
               FD.file, site.line, <<>>,
               <<EvField("op", <<site.name>>, 0),
                 EvField("op_class",
                         IF isStore THEN <<"store">> ELSE <<"rmw">>, 0),
                 EvField("ordering", <<"seq_cst">>, 0),
                 EvField("function", FD.name, 0),
                 EvField("in_loop", YesNo(inLoop), 0),
                 EvField("total_seq_cst_in_func", <<>>, atomicCount)>>),
          escs)

FL010_OverlyStrongOrdering(D, i, cfg, hotCache) ==
    IF ~IsFunctionWithBody(D) THEN Analyzed(<<>>, hotCache)
    ELSE
    LET o == isFunctionHot(cfg, hotCache, i, D)
        sites == SeqCstVisitor(D.body)
        flagged == SelectSeq(sites, LAMBDA s : opClass(s) # "Load")
    IN  IF ~o.hot THEN Analyzed(<<>>, o.hotCache)
        ELSE Analyzed([k \in DOMAIN flagged |->
                          FL010Diag(D, flagged[k], Len(sites))],
                      o.hotCache)

(* AtomicWriteVisitor of FL011. *)
WriteOps == {"store", "exchange", "compare_exchange_weak",
             "compare_exchange_strong", "fetch_add", "fetch_sub",
             "fetch_and", "fetch_or", "fetch_xor"}

AtomicWriteVisitor(body) ==
    SelectSeq(body, LAMBDA s :
        \/ /\ s.node = "CXXMemberCallExpr" /\ s.name \in WriteOps
           /\ "atomic" \in s.words
        \/ /\ s.node = "CXXOperatorCallExpr" /\ "atomic" \in s.words
           /\ s.name \in CompoundOperators \cup {"operator="})

(* FL011_AtomicContention::analyze: one diagnostic per function; the       *)
(* evidence tier is left at the Diagnostic default.                        *)
FL011_AtomicContention(D, i, cfg, hotCache) ==
    IF ~IsFunctionWithBody(D) THEN Analyzed(<<>>, hotCache)
    ELSE
    LET o == isFunctionHot(cfg, hotCache, i, D)
        sites == AtomicWriteVisitor(D.body)
        writeCount == Len(sites)
        hasLoopWrite == \E k \in DOMAIN sites : sites[k].inLoop > 0
        escs == (IF writeCount >= 3
                 THEN <<Esc("3+ atomic writes per invocation", "", 0, 0,
                            <<>>)>>
                 ELSE <<>>)
                \o (IF hasLoopWrite
                    THEN <<Esc("Atomic write inside loop", "", 0, 0, <<>>)>>
                    ELSE <<>>)
    IN  IF ~o.hot THEN Analyzed(<<>>, o.hotCache)
        ELSE IF sites = <<>> THEN Analyzed(<<>>, o.hotCache)
        ELSE IF writeCount < 2 /\ ~hasLoopWrite THEN Analyzed(<<>>, o.hotCache)
        ELSE Analyzed(
               <<WithEscalations(
                   Diag("FL011", Critical,
                        IF hasLoopWrite THEN 80 ELSE 65, Speculative,
                        D.file, D.line, <<>>,
                        <<EvField("function", D.name, 0),
                          EvField("atomic_writes", <<>>, writeCount),
                          EvField("loop_writes", YesNo(hasLoopWrite), 0)>>),
                   escs)>>,
               o.hotCache)

(* LockVisitor of FL012: a site is nested when a lock was taken earlier in *)
(* a compound statement that still encloses it.                            *)
LockWrappers == {"lock_guard", "unique_lock", "shared_lock", "scoped_lock"}
MutexWords   == {"mutex", "spinlock", "shared_mutex"}

IsLockSite(s) ==
    \/ /\ s.node = "CXXMemberCallExpr" /\ s.name \in {"lock", "try_lock"}
       /\ s.words \cap MutexWords # {}
    \/ s.node = "CXXConstructExpr" /\ s.words \cap LockWrappers # {}

IsPrefix(s, t) == Len(s) <= Len(t) /\ SubSeq(t, 1, Len(s)) = s

LockVisitor(body) ==
    LET at == {k \in DOMAIN body : IsLockSite(body[k])}
        nested(k) == \E j \in at : j < k /\ IsPrefix(body[j].block,
                                                     body[k].block)
        sites == SelectSeq([k \in DOMAIN body |->
                               [stmt |-> body[k], at |-> k]],
                           LAMBDA x : x.at \in at)
    IN  [k \in DOMAIN sites |->
            [line |-> sites[k].stmt.line, kind |-> sites[k].stmt.name,
             isNested |-> nested(sites[k].at),
             inLoop |-> sites[k].stmt.inLoop]]

(* FL012_LockHotPath::analyze: one diagnostic per lock site. *)
FL012Diag(FD, site) ==
    WithEscalations(
      Diag("FL012", Critical, 75, Likely, FD.file, site.line, FD.name,
           <<EvField("lock_type", <<site.kind>>, 0),
             EvField("function", FD.name, 0),
             EvField("nested", YesNo(site.isNested), 0),
             EvField("in_loop", YesNo(site.inLoop > 0), 0)>>),
      (IF site.isNested
       THEN <<Esc("Nested lock acquisition", "", 0, 0, <<>>)>> ELSE <<>>)
      \o (IF site.inLoop > 0
          THEN <<Esc("Lock inside loop", "", 0, 0, <<>>)>> ELSE <<>>))

FL012_LockHotPath(D, i, cfg, hotCache) ==
    IF ~IsFunctionWithBody(D) THEN Analyzed(<<>>, hotCache)
    ELSE
    LET o == isFunctionHot(cfg, hotCache, i, D)
        sites == LockVisitor(D.body)
    IN  IF ~o.hot THEN Analyzed(<<>>, o.hotCache)
        ELSE Analyzed([k \in DOMAIN sites |-> FL012Diag(D, sites[k])],
                      o.hotCache)

(* AllocVisitor of FL020: the kinds of the sites one statement gives.      *)
CAllocators == {"malloc", "calloc", "realloc", "free", "aligned_alloc",
                "posix_memalign"}
ContainerWords == {"std::vector", "std::map", "std::unordered_map",
                   "std::list", "std::deque"}

AllocKinds(s) ==
    IF s.node = "CXXNewExpr" THEN <<"operator new">>
    ELSE IF s.node = "CXXDeleteExpr" THEN <<"operator delete">>
    ELSE IF s.node = "CallExpr"
    THEN (IF s.name \in CAllocators THEN <<s.name>> ELSE <<>>)
         \o (IF s.words \cap {"make_shared", "make_unique"} # {}
             THEN <<s.name>> ELSE <<>>)
    ELSE IF s.node = "CXXConstructExpr"
    THEN (IF "std::function" \in s.words
          THEN <<"std::function ctor">> ELSE <<>>)
         \o (IF "std::shared_ptr" \in s.words
             THEN <<"std::shared_ptr ctor">> ELSE <<>>)
         \o (IF "std::basic_string" \in s.words
             THEN <<"std::string ctor">> ELSE <<>>)
         \o (IF s.words \cap ContainerWords # {}
             THEN <<s.name>> ELSE <<>>)
    ELSE <<>>

RECURSIVE AllocVisitor(_)
AllocVisitor(body) ==
    IF body = <<>> THEN <<>>
    ELSE [k \in DOMAIN AllocKinds(Head(body)) |->
             [line |-> Head(body).line, kind |-> AllocKinds(Head(body))[k],
              inLoop |-> Head(body).inLoop]]
         \o AllocVisitor(Tail(body))

(* FL020_HeapAllocHotPath::analyze: one diagnostic per allocation site.   *)
(* A faulty variant that seeds the tier Proven comes first.                *)
FL020DiagProven(FD, site) ==
    Diag("FL020", Critical, 75, Proven, FD.file, site.line, FD.name,
         <<EvField("alloc_type", <<site.kind>>, 0),
           EvField("function", FD.name, 0),
           EvField("in_loop", YesNo(site.inLoop > 0), 0),
           EvField("hot_path", <<"true">>, 0)>>)

FL020Diag(FD, site) ==
    WithEscalations(
      Diag("FL020", Critical, 75, Likely, FD.file, site.line, FD.name,
           <<EvField("alloc_type", <<site.kind>>, 0),
             EvField("function", FD.name, 0),
             EvField("in_loop", YesNo(site.inLoop > 0), 0),
             EvField("hot_path", <<"true">>, 0)>>),
      IF site.inLoop > 0
      THEN <<Esc("Allocation inside loop", "", 0, 0, <<>>)>> ELSE <<>>)

(* A faulty variant of the rule that does not ask the oracle. *)
FL020_WithoutOracle(D, i, cfg, hotCache) ==
    IF ~IsFunctionWithBody(D) THEN Analyzed(<<>>, hotCache)
    ELSE Analyzed([k \in DOMAIN AllocVisitor(D.body) |->
                      FL020Diag(D, AllocVisitor(D.body)[k])],
                  hotCache)

FL020_HeapAllocHotPath(D, i, cfg, hotCache) ==
    IF ~IsFunctionWithBody(D) THEN Analyzed(<<>>, hotCache)
    ELSE
    LET o == isFunctionHot(cfg, hotCache, i, D)
        sites == AllocVisitor(D.body)
    IN  IF ~o.hot THEN Analyzed(<<>>, o.hotCache)
        ELSE Analyzed([k \in DOMAIN sites |-> FL020Diag(D, sites[k])],
                      o.hotCache)

(* FL021_LargeStackFrame::analyze: the estimate sums the locals declared   *)
(* directly in the body and the by-value parameters; the oracle is asked   *)
(* only once the estimate has reached the threshold.                       *)
FrameThreshold == 2048
PageSize == 4096

Local(name, size) ==
    [name |-> name, size |-> size, hasLocalStorage |-> TRUE,
     complete |-> TRUE]
Param(size, byValue, words) ==
    [size |-> size, byValue |-> byValue, complete |-> TRUE, words |-> words]

totalBytes(FD) ==
    SeqSum([k \in DOMAIN FD.locals |->
               IF FD.locals[k].hasLocalStorage /\ FD.locals[k].complete
               THEN FD.locals[k].size ELSE 0])
    + SeqSum([k \in DOMAIN FD.params |->
                 IF FD.params[k].complete /\ FD.params[k].byValue
                 THEN FD.params[k].size ELSE 0])

largeLocals(FD) ==
    SelectSeq(FD.locals, LAMBDA l :
        l.hasLocalStorage /\ l.complete /\ l.size >= 256)

FL021_LargeStackFrame(D, i, cfg, hotCache) ==
    IF ~IsFunctionWithBody(D) THEN Analyzed(<<>>, hotCache)
    ELSE IF totalBytes(D) < FrameThreshold THEN Analyzed(<<>>, hotCache)
    ELSE
    LET o == isFunctionHot(cfg, hotCache, i, D)
        isHot == o.hot
        total == totalBytes(D)
        large == largeLocals(D)
        escs == (IF total > PageSize
                 THEN <<Esc("Stack frame exceeds page size (4KB)", "", 0, 0,
                            <<>>)>>
                 ELSE <<>>)
                \o (IF isHot
                    THEN <<Esc("Function is on hot path", "", 0, 0, <<>>)>>
                    ELSE <<>>)
    IN  Analyzed(
          <<WithEscalations(
              Diag("FL021",
                   IF isHot /\ total > PageSize THEN Critical
                   ELSE IF isHot THEN High ELSE Medium,
                   80, Likely, D.file, D.line, <<>>,
                   <<EvField("estimated_frame", <<>>, total),
                     EvField("threshold", <<>>, FrameThreshold)>>
                   \o (IF large # <<>>
                       THEN <<EvField("large_locals",
                                      [k \in DOMAIN large |-> large[k].name],
                                      0)>>
                       ELSE <<>>)),
              escs)>>,
          o.hotCache)

(* VCallVisitor of FL030. *)
VCallVisitor(body) ==
    SelectSeq(body, LAMBDA s :
        /\ s.node = "CXXMemberCallExpr" /\ s.isVirtual
        /\ s.objType \in {"pointer", "reference", "record"})

(* FL030_VirtualDispatch::analyze: one diagnostic per virtual call site.  *)
(* A faulty variant that reports Critical outside loops comes first.       *)
FL030DiagAlwaysCritical(FD, site) ==
    Diag("FL030", Critical, 80, Proven, FD.file, site.line, <<>>,
         <<EvField("virtual_call", <<site.name>>, 0),
           EvField("caller", FD.name, 0),
           EvField("in_loop", YesNo(site.inLoop > 0), 0),
           EvField("hot_path", <<"true">>, 0)>>)

FL030Diag(FD, site) ==
    WithEscalations(
      Diag("FL030", IF site.inLoop > 0 THEN Critical ELSE High, 80, Proven,
           FD.file, site.line, <<>>,
           <<EvField("virtual_call", <<site.name>>, 0),
             EvField("caller", FD.name, 0),
             EvField("in_loop", YesNo(site.inLoop > 0), 0),
             EvField("hot_path", <<"true">>, 0)>>),
      IF site.inLoop > 0
      THEN <<Esc("Virtual call inside loop", "", 0, 0, <<>>)>> ELSE <<>>)

FL030_VirtualDispatch(D, i, cfg, hotCache) ==
    IF ~IsFunctionWithBody(D) THEN Analyzed(<<>>, hotCache)
    ELSE
    LET o == isFunctionHot(cfg, hotCache, i, D)
        sites == VCallVisitor(D.body)
    IN  IF ~o.hot THEN Analyzed(<<>>, o.hotCache)
        ELSE Analyzed([k \in DOMAIN sites |-> FL030Diag(D, sites[k])],
                      o.hotCache)

(* StdFuncVisitor of FL031: invocations and constructions. *)
StdFuncKind(s) ==
    IF s.node = "CXXConstructExpr" THEN "Construct" ELSE "Invoke"

StdFuncVisitor(body) ==
    SelectSeq(body, LAMBDA s :
        /\ "std::function" \in s.words
        /\ \/ s.node = "CXXOperatorCallExpr" /\ s.name = "operator()"
           \/ s.node = "CXXConstructExpr"
           \/ s.node = "CallExpr")

(* FL031_StdFunctionHotPath::analyze: one diagnostic per site; a           *)
(* std::function parameter alone passes the early return and yields none.  *)
FL031Diag(FD, site) ==
    WithEscalations(
      Diag("FL031", IF site.inLoop > 0 THEN Critical ELSE High, 80, Proven,
           FD.file, site.line, <<>>,
           <<EvField(IF StdFuncKind(site) = "Construct"
                     THEN "std_function_construction"
                     ELSE "std_function_invocation", <<>>, 0),
             EvField("caller", FD.name, 0),
             EvField("in_loop", YesNo(site.inLoop > 0), 0),
             EvField("hot_path", <<"true">>, 0)>>),
      (IF site.inLoop > 0
       THEN <<Esc("std::function used inside loop", "", 0, 0, <<>>)>>
       ELSE <<>>)
      \o (IF StdFuncKind(site) = "Construct"
          THEN <<Esc("std::function constructed in hot path", "", 0, 0,
                     <<>>)>>
          ELSE <<>>))

FL031_StdFunctionHotPath(D, i, cfg, hotCache) ==
    IF ~IsFunctionWithBody(D) THEN Analyzed(<<>>, hotCache)
    ELSE
    LET o == isFunctionHot(cfg, hotCache, i, D)
        sites == StdFuncVisitor(D.body)
    IN  IF ~o.hot THEN Analyzed(<<>>, o.hotCache)
        ELSE Analyzed([k \in DOMAIN sites |-> FL031Diag(D, sites[k])],
                      o.hotCache)

(* BranchDepthVisitor of FL050 with threshold 4. *)
BranchThreshold == 4

BranchDepthVisitor(body) ==
    SelectSeq(body, LAMBDA s :
        \/ s.node = "IfStmt" /\ s.depth >= BranchThreshold
        \/ s.node = "SwitchStmt" /\ s.cases >= 8)

maxDepth(body) ==
    LET ds == {body[k].depth : k \in {j \in DOMAIN body :
                                         body[j].node = "IfStmt"}}
    IN  IF ds = {} THEN 0 ELSE CHOOSE d \in ds : \A e \in ds : e <= d

(* FL050_DeepConditionalTree::analyze: every large switch, and the first   *)
(* nested-if site only.                                                    *)
FL050Diag(FD, site) ==
    LET isSwitch == site.node = "SwitchStmt" IN
    WithEscalations(
      Diag("FL050",
           IF isSwitch \/ site.depth >= 6 THEN High ELSE Medium,
           50, Speculative, FD.file, site.line, <<>>,
           <<EvField("function", FD.name, 0),
             EvField("type",
                     IF isSwitch THEN <<"switch">> ELSE <<"nested_if">>, 0),
             EvField("depth", <<>>, site.depth),
             EvField("max_depth", <<>>, maxDepth(FD.body))>>
           \o (IF isSwitch THEN <<EvField("cases", <<>>, site.cases)>>
               ELSE <<>>)),
      IF isSwitch THEN <<Esc("Large switch", "", site.cases, 0, <<>>)>>
      ELSE IF site.depth >= 6
      THEN <<Esc("Nesting depth", "", site.depth, 0, <<>>)>>
      ELSE <<>>)

FL050_DeepConditionalTree(D, i, cfg, hotCache) ==
    IF ~IsFunctionWithBody(D) THEN Analyzed(<<>>, hotCache)
    ELSE
    LET o == isFunctionHot(cfg, hotCache, i, D)
        sites == BranchDepthVisitor(D.body)
        ifs == {k \in DOMAIN sites : sites[k].node = "IfStmt"}
        emitted == SelectSeq([k \in DOMAIN sites |->
                                 [site |-> sites[k], at |-> k]],
                             LAMBDA x : x.site.node = "SwitchStmt"
                                        \/ x.at = Min(ifs))
    IN  IF ~o.hot THEN Analyzed(<<>>, o.hotCache)
        ELSE Analyzed([k \in DOMAIN emitted |->
                          FL050Diag(D, emitted[k].site)],
                      o.hotCache)

(* DispatchVisitor of FL061: a do-loop does not set hasLoop. *)
CallNodes == {"CallExpr", "CXXMemberCallExpr", "CXXOperatorCallExpr"}

DispatchVisitor(FD) ==
    LET body == FD.body
        cases == {body[k].cases : k \in {j \in DOMAIN body :
                                            body[j].node = "SwitchStmt"}}
    IN  [virtualCalls |-> Len(SelectSeq(body, LAMBDA s :
                             s.node = "CXXMemberCallExpr" /\ s.isVirtual)),
         callees |-> Len(SelectSeq(body, LAMBDA s : s.node \in CallNodes)),
         switchCases |-> IF cases = {} THEN 0
                         ELSE CHOOSE c \in cases : \A e \in cases : e <= c,
         hasLoop |-> FD.loopKind \in {"for", "while", "range"}]

(* FL061_CentralizedDispatcher::analyze: one diagnostic per function. *)
FL061_CentralizedDispatcher(D, i, cfg, hotCache) ==
    IF ~IsFunctionWithBody(D) THEN Analyzed(<<>>, hotCache)
    ELSE
    LET o == isFunctionHot(cfg, hotCache, i, D)
        info == DispatchVisitor(D)
        isDispatcher == \/ info.callees >= 8
                        \/ info.switchCases >= 6 /\ info.callees >= 3
                        \/ info.virtualCalls >= 3
        mixed == info.virtualCalls >= 3 /\ info.switchCases >= 4
    IN  IF ~o.hot THEN Analyzed(<<>>, o.hotCache)
        ELSE IF ~isDispatcher THEN Analyzed(<<>>, o.hotCache)
        ELSE Analyzed(
               <<WithEscalations(
                   Diag("FL061",
                        IF info.hasLoop \/ mixed THEN Critical ELSE High,
                        55, Speculative, D.file, D.line, <<>>,
                        <<EvField("function", D.name, 0),
                          EvField("callees", <<>>, info.callees),
                          EvField("virtual_calls", <<>>, info.virtualCalls),
                          EvField("switch_cases", <<>>, info.switchCases),
                          EvField("has_loop", YesNo(info.hasLoop), 0)>>),
                   (IF info.hasLoop
                    THEN <<Esc("Dispatch loop", "", 0, 0, <<>>)>> ELSE <<>>)
                   \o (IF mixed
                       THEN <<Esc("Mixed dispatch", "", 0, 0, <<>>)>>
                       ELSE <<>>))>>,
               o.hotCache)

(* A record declaration at the top level of a translation unit, as FL090   *)
(* reads it: what EscapeAnalysis reads of it, its place, whether the       *)
(* compiler declared it (implicit, or the closure type of a lambda), and   *)
(* its size from the record layout.                                        *)
RecordDecl(name, file, line, RD, isImplicit, isLambda, sizeBytes) ==
    [node |-> "CXXRecordDecl", name |-> name, file |-> file, line |-> line,
     systemHeader |-> FALSE,
     isCompleteDefinition |-> RD.isCompleteDefinition,
     fields |-> RD.fields, bases |-> RD.bases,
     isImplicit |-> isImplicit, isLambda |-> isLambda,
     sizeBytes |-> sizeBytes]

(* EscapeAnalysis::isFieldMutable; a field declared mutable is never       *)
(* const-qualified.                                                        *)
EscapeAnalysis_isFieldMutable(QT) == ~QT.constQualified

SizeThreshold == 128

(* FL090_HazardAmplification::analyze *)
FL090_HazardAmplification(D, i, cfg, hotCache) ==
    IF D.node # "CXXRecordDecl" \/ ~D.isCompleteDefinition
          \/ D.isImplicit \/ D.isLambda
    THEN Analyzed(<<>>, hotCache)
    ELSE
    LET largeStruct == D.sizeBytes > SizeThreshold
        hasAtomics == hasAtomicMembers(D)
        threadEscape == mayEscapeThread(D)
        signalCount == (IF largeStruct THEN 1 ELSE 0)
                       + (IF hasAtomics THEN 1 ELSE 0)
                       + (IF threadEscape THEN 1 ELSE 0)
        cacheLines == (D.sizeBytes + 63) \div 64
        mutableCount ==
            Cardinality({k \in DOMAIN D.fields :
                            EscapeAnalysis_isFieldMutable(D.fields[k])})
    IN  IF signalCount < 3 THEN Analyzed(<<>>, hotCache)
        ELSE Analyzed(
          <<WithEscalations(
              [Diag("FL090", Critical, 90, Speculative, D.file, D.line,
                    <<>>,
                    <<EvField("struct", D.name, 0),
                      EvField("sizeof", <<>>, D.sizeBytes),
                      EvField("cache_lines", <<>>, cacheLines),
                      EvField("atomics", <<"yes">>, 0),
                      EvField("thread_escape", <<"yes">>, 0),
                      EvField("mutable_fields", <<>>, mutableCount),
                      EvField("signal_count", <<>>, signalCount)>>)
               EXCEPT !.column = 8],
              <<Esc("sizeof", "", D.sizeBytes, cacheLines, <<>>),
                Esc("Contains atomic fields", "", 0, 0, <<>>),
                Esc("Thread-escaping", "", 0, 0, <<>>)>>
              \o (IF mutableCount > 4
                  THEN <<Esc("mutable fields", "", mutableCount, 0, <<>>)>>
                  ELSE <<>>))>>,
          hotCache)

(* rule->analyze(D, Ctx, oracle_, diagnostics_) for the rule of an id. *)
analyze(rule, D, i, cfg, hotCache) ==
    CASE rule = "FL010" -> FL010_OverlyStrongOrdering(D, i, cfg, hotCache)
      [] rule = "FL011" -> FL011_AtomicContention(D, i, cfg, hotCache)
      [] rule = "FL012" -> FL012_LockHotPath(D, i, cfg, hotCache)
      [] rule = "FL020" -> FL020_HeapAllocHotPath(D, i, cfg, hotCache)
      [] rule = "FL021" -> FL021_LargeStackFrame(D, i, cfg, hotCache)
      [] rule = "FL030" -> FL030_VirtualDispatch(D, i, cfg, hotCache)
      [] rule = "FL031" -> FL031_StdFunctionHotPath(D, i, cfg, hotCache)
      [] rule = "FL050" -> FL050_DeepConditionalTree(D, i, cfg, hotCache)
      [] rule = "FL061" -> FL061_CentralizedDispatcher(D, i, cfg, hotCache)
      [] rule = "FL090" -> FL090_HazardAmplification(D, i, cfg, hotCache)

(* isInSystemHeader of the consumer. *)
isInSystemHeader(D) == D.line = 0 \/ D.systemHeader

(* HandleTranslationUnit, first pass: the oracle is asked about every      *)
(* top-level function outside system headers.                              *)
RECURSIVE CollectHot(_, _, _, _)
CollectHot(decls, i, cfg, hotCache) ==
    IF i > Len(decls) THEN hotCache
    ELSE IF isInSystemHeader(decls[i]) \/ decls[i].node # "FunctionDecl"
    THEN CollectHot(decls, i + 1, cfg, hotCache)
    ELSE CollectHot(decls, i + 1, cfg,
                    isFunctionHot(cfg, hotCache, i, decls[i]).hotCache)

(* Second pass: every registered rule, in registration order, on every     *)
(* declaration outside system headers, in declaration order.  A faulty     *)
(* variant that leaves a declaration at the first rule that reported       *)
(* comes first.                                                            *)
RECURSIVE RunRulesUntilReported(_, _, _, _, _, _)
RunRulesUntilReported(decls, rules, i, k, cfg, st) ==
    IF i > Len(decls) THEN st
    ELSE IF isInSystemHeader(decls[i]) \/ k > Len(rules)
    THEN RunRulesUntilReported(decls, rules, i + 1, 1, cfg, st)
    ELSE LET a == analyze(rules[k], decls[i], i, cfg, st.hotCache)
         IN  RunRulesUntilReported(decls, rules,
                      IF a.out # <<>> THEN i + 1 ELSE i,
                      IF a.out # <<>> THEN 1 ELSE k + 1, cfg,
                      Analyzed(st.out \o a.out, a.hotCache))

RECURSIVE RunRules(_, _, _, _, _, _)
RunRules(decls, rules, i, k, cfg, st) ==
    IF i > Len(decls) THEN st
    ELSE IF isInSystemHeader(decls[i]) \/ k > Len(rules)
    THEN RunRules(decls, rules, i + 1, 1, cfg, st)
    ELSE LET a == analyze(rules[k], decls[i], i, cfg, st.hotCache)
         IN  RunRules(decls, rules, i, k + 1, cfg,
                      Analyzed(st.out \o a.out, a.hotCache))

(* FaultlineASTConsumer::HandleTranslationUnit *)
HandleTranslationUnit(decls, rules, cfg, hotCache, out) ==
    RunRules(decls, rules, 1, 1, cfg,
             Analyzed(out, CollectHot(decls, 1, cfg, hotCache)))

(* The declarations the rule engine is run on. *)
MemberCall(name, words, inLoop, line) ==
    Stmt("CXXMemberCallExpr", name, words, inLoop, line)
VirtualCall(name, inLoop, line) ==
    [Stmt("CXXMemberCallExpr", name, {}, inLoop, line) EXCEPT
        !.isVirtual = TRUE, !.objType = "pointer"]
Relaxed(s) == [s EXCEPT !.orderArg = "relaxed"]
InBlock(s, block) == [s EXCEPT !.block = block]

\* f: hot by annotation; a seq_cst store and a relaxed fetch_add, no loop.
DeclHotTwoWrites ==
    FunctionDecl(FnF, FileA, 9, {"faultline_hot"}, "",
        <<MemberCall("store", {"atomic"}, 0, 10),
          Relaxed(MemberCall("fetch_add", {"atomic"}, 0, 11)),
          MemberCall("load", {"atomic"}, 0, 12)>>,
        <<>>, <<>>)
\* Q::f: hot by configuration only; a for loop with a seq_cst store, a
\* virtual call, a new expression and a lock_guard inside a locked region.
DeclHotLoop ==
    FunctionDecl(FnQf, FileB, 20, {}, "for",
        <<MemberCall("lock", {"mutex"}, 0, 21),
          InBlock(MemberCall("store", {"atomic"}, 1, 22), <<1, 2>>),
          InBlock(VirtualCall("run", 1, 23), <<1, 2>>),
          InBlock(Stmt("CXXNewExpr", "", {}, 1, 24), <<1, 2>>),
          InBlock(Stmt("CXXConstructExpr", "std::lock_guard",
                       {"lock_guard"}, 1, 25), <<1, 2>>)>>,
        <<Local("buf", 1024)>>, <<>>)
\* g: hot by annotation; no loop: a virtual call, a std::function built and
\* called, malloc, a single atomic increment, a frame of 5000 bytes.
DeclHotFlat ==
    FunctionDecl(FnG, FileB, 30, {"faultline_hot"}, "",
        <<VirtualCall("run", 0, 31),
          Stmt("CXXConstructExpr", "std::function", {"std::function"}, 0, 32),
          Stmt("CXXOperatorCallExpr", "operator()", {"std::function"}, 0, 33),
          Stmt("CallExpr", "malloc", {}, 0, 34),
          Stmt("CXXOperatorCallExpr", "operator++", {"atomic"}, 0, 35)>>,
        <<Local("table", 4096), Local("n", 8)>>,
        <<Param(896, TRUE, {}), Param(8, FALSE, {"std::function"})>>)
\* coldPathInit: cold; a large frame, and the constructs the hot-only rules
\* look for, inside a while loop.
DeclCold ==
    FunctionDecl(<<"coldPathInit">>, FileA, 40, {}, "while",
        <<MemberCall("store", {"atomic"}, 1, 41),
          MemberCall("fetch_add", {"atomic"}, 1, 42),
          VirtualCall("run", 1, 43),
          Stmt("CXXNewExpr", "", {}, 1, 44),
          MemberCall("lock", {"mutex"}, 1, 45),
          Stmt("CXXConstructExpr", "std::function", {"std::function"}, 1, 46),
          [Stmt("SwitchStmt", "", {}, 1, 47) EXCEPT !.cases = 8]>>,
        <<Local("scratch", 8192)>>, <<>>)
\* dispatch: hot; a do loop, three virtual calls, a switch of eight cases,
\* an if nested four deep and one nested six deep.
DeclDispatch ==
    FunctionDecl(<<"dispatch">>, FileB, 50, {"faultline_hot"}, "do",
        <<VirtualCall("a", 1, 51), VirtualCall("b", 1, 52),
          VirtualCall("c", 0, 53),
          [Stmt("SwitchStmt", "", {}, 0, 54) EXCEPT !.cases = 8],
          [Stmt("IfStmt", "", {}, 0, 55) EXCEPT !.depth = 4],
          [Stmt("IfStmt", "", {}, 0, 56) EXCEPT !.depth = 6]>>,
        <<>>, <<>>)
\* A hot function declared in a system header, and one without a body.
DeclSystem ==
    [DeclHotTwoWrites EXCEPT !.systemHeader = TRUE]
DeclNoBody ==
    [DeclHotLoop EXCEPT !.hasBody = FALSE]
\* A namespace: no rule looks inside it.
DeclNamespace ==
    [node |-> "NamespaceDecl", name |-> <<"ns">>, file |-> FileA,
     line |-> 60, systemHeader |-> FALSE]

TUPool ==
    { <<DeclHotTwoWrites, DeclCold>>,
      <<DeclCold, DeclHotLoop>>,
      <<DeclHotFlat, DeclNamespace, DeclHotTwoWrites>>,
      <<DeclDispatch, DeclCold>>,
      <<DeclSystem, DeclNoBody, DeclHotLoop>>,
      <<DeclHotLoop, DeclHotFlat>> }

RuleIDs == {"FL010", "FL011", "FL012", "FL020", "FL021", "FL030", "FL031",
            "FL050", "FL061"}

MaxRules == 3

(* The registration orders: the rules are registered by static             *)
(* initialisers, in an order the build decides.                            *)
RuleOrders ==
    {o \in [1..MaxRules -> RuleIDs] :
        \A a, b \in 1..MaxRules : a # b => o[a] # o[b]}

ConfigPool ==
    { [hotFunctionPatterns |-> {}, hotFilePatterns |-> {}],
      [hotFunctionPatterns |-> {<<"Q", "*">>}, hotFilePatterns |-> {}],
      [hotFunctionPatterns |-> {<<"dispatch">>},
       hotFilePatterns |-> {<<"src", "a.*">>}] }

\* g as the optimiser left it: one alloca of 512 bytes.
IRgSmallFrame == IRFunc(FnG, FnG,
         <<Inst("alloca", "", FALSE, FALSE, <<>>, 0, "table", 512)>>)

RuleModules == {<<IRf>>, <<IRQf, IRg>>, <<IRnsQf>>, <<IRgSmallFrame>>}

RuleIdle ==
    /\ tu = <<>> /\ rules_ = <<>> /\ config_ = <<>> /\ hotCache_ = {}
    /\ diagnostics_ = <<>> /\ astDiagnostics = <<>> /\ phase = "idle"

RuleInit ==
    /\ tu \in TUPool
    /\ rules_ \in RuleOrders
    /\ config_ \in ConfigPool
    /\ hotCache_ = {}
    /\ diagnostics_ = <<>>
    /\ astDiagnostics = <<>>
    /\ phase = "parsed"

(* The consumer runs over the translation unit. *)
RunConsumer ==
    /\ phase = "parsed"
    /\ LET r == HandleTranslationUnit(tu, rules_, config_, hotCache_,
                                      diagnostics_)
       IN  /\ diagnostics_' = r.out
           /\ astDiagnostics' = r.out
           /\ hotCache_' = r.hotCache
    /\ phase' = "analyzed"
    /\ UNCHANGED <<tu, rules_, config_>>
    /\ UNCHANGED <<libVars, storeVars, refVars, keyVars, mainVars>>

(* The refiner runs over the diagnostics with the profiles of a module. *)
RefineConsumer ==
    /\ phase = "analyzed"
    /\ \E M \in RuleModules :
          diagnostics_' = refine(diagnostics_, analyzeModule(<<>>, M))
    /\ phase' = "refined"
    /\ UNCHANGED <<tu, rules_, config_, hotCache_, astDiagnostics>>
    /\ UNCHANGED <<libVars, storeVars, refVars, keyVars, mainVars>>

RuleNext == RunConsumer \/ RefineConsumer

----------------------------------------------------------------------------
(* The records EscapeAnalysis is exercised on.                             *)

MaxFields == 3
MaxBaseFields == 1

FieldTypes ==
    {TInt, TC11Atomic, TStdAtomic, TAtomicPointer, TMutex, TPthreadMutex,
     TSharedPtr, TVolatileInt, TInner, TStdFunction, TFunctionPointer}

EscIdle ==
    /\ record = CXXRecordDecl(FALSE, <<>>, <<>>)
    /\ escapedBefore = FALSE
    /\ edited = "none"

(* A record as the source declares it at first: a forward declaration, an  *)
(* empty definition, or an empty definition with an empty base.            *)
EscInit ==
    /\ record \in {CXXRecordDecl(FALSE, <<>>, <<>>),
                   CXXRecordDecl(TRUE, <<>>, <<>>),
                   CXXRecordDecl(TRUE, <<>>,
                                 <<CXXRecordDecl(TRUE, <<>>, <<>>)>>)}
    /\ escapedBefore = FALSE
    /\ edited = "none"

(* The record gets its definition. *)
DefineRecord ==
    /\ ~record.isCompleteDefinition
    /\ record' = [record EXCEPT !.isCompleteDefinition = TRUE]
    /\ escapedBefore' = mayEscapeThread(record)
    /\ edited' = "definition"
    /\ UNCHANGED <<ixVars, mapVars, exitVars, storeVars, ruleVars, refVars, keyVars,
                   mainVars>>

(* A field is added to the record, in front of its fields or behind them. *)
AddField ==
    /\ record.isCompleteDefinition
    /\ Len(record.fields) < MaxFields
    /\ \E QT \in FieldTypes : \E front \in BOOLEAN :
          record' = [record EXCEPT !.fields =
                        IF front THEN <<QT>> \o @ ELSE Append(@, QT)]
    /\ escapedBefore' = mayEscapeThread(record)
    /\ edited' = "field"
    /\ UNCHANGED <<ixVars, mapVars, exitVars, storeVars, ruleVars, refVars, keyVars,
                   mainVars>>

(* A field is added to the base of the record. *)
AddBaseField ==
    /\ record.bases # <<>>
    /\ Len(record.bases[1].fields) < MaxBaseFields
    /\ \E QT \in FieldTypes :
          record' = [record EXCEPT !.bases[1].fields = Append(@, QT)]
    /\ escapedBefore' = mayEscapeThread(record)
    /\ edited' = "base field"
    /\ UNCHANGED <<ixVars, mapVars, exitVars, storeVars, ruleVars, refVars, keyVars,
                   mainVars>>

EscNext == DefineRecord \/ AddField \/ AddBaseField

----------------------------------------------------------------------------
(* CacheLineMap.  The layout of a record is clang's: a RecordLayout gives  *)
(* the record's size, the offset of every base and the bit offset of every *)
(* field; a field also has the size of its type and, when its type is a    *)
(* record, that record's layout.                                           *)

FieldDecl(name, offsetBits, typeSize, QT, isMutable, nested) ==
    [name |-> name, offsetBits |-> offsetBits, typeSize |-> typeSize,
     type |-> QT, isMutable |-> isMutable, nested |-> nested]

BaseSpecifier(offset, isVirtual, decl) ==
    [offset |-> offset, isVirtual |-> isVirtual, decl |-> decl]

RecordLayout(size, bases, fields) ==
    [isCompleteDefinition |-> TRUE, size |-> size, bases |-> bases,
     fields |-> fields]

(* CacheLineMap::isAtomicType *)
CacheLineMap_isAtomicType(QT) == QT.c11Atomic \/ "atomic" \in QT.canon

(* CacheLineMap::isFieldMutable *)
isFieldMutable(FD) == FD.isMutable \/ ~FD.type.constQualified

FieldLineEntry(FD, absOffset, cacheLineBytes) ==
    LET startLine == absOffset \div cacheLineBytes
        endByte == absOffset + FD.typeSize
        endLine == IF endByte > 0 THEN (endByte - 1) \div cacheLineBytes
                   ELSE startLine
    IN  [name |-> FD.name, offsetBytes |-> absOffset,
         sizeBytes |-> FD.typeSize, startLine |-> startLine,
         endLine |-> endLine, straddles |-> startLine # endLine,
         isAtomic |-> CacheLineMap_isAtomicType(FD.type),
         isMutable |-> isFieldMutable(FD)]

(* CacheLineMap::collectFields: the fields of the non-virtual bases, then  *)
(* of the virtual bases, then the direct fields, each behind the fields of *)
(* its own nested record.                                                  *)
RECURSIVE collectFields(_, _, _)
RECURSIVE collectBases(_, _, _, _, _)
RECURSIVE collectDirect(_, _, _, _)
collectBases(bases, k, isVirtual, baseOffsetBytes, cacheLineBytes) ==
    IF k > Len(bases) THEN <<>>
    ELSE (IF bases[k].isVirtual = isVirtual
             /\ bases[k].decl.isCompleteDefinition
          THEN collectFields(bases[k].decl,
                             baseOffsetBytes + bases[k].offset,
                             cacheLineBytes)
          ELSE <<>>)
         \o collectBases(bases, k + 1, isVirtual, baseOffsetBytes,
                         cacheLineBytes)

collectDirect(fields, k, baseOffsetBytes, cacheLineBytes) ==
    IF k > Len(fields) THEN <<>>
    ELSE LET FD == fields[k]
             absOffset == baseOffsetBytes + FD.offsetBits \div 8
             entry == FieldLineEntry(FD, absOffset, cacheLineBytes)
         IN  (IF FD.nested # <<>> /\ FD.nested[1].isCompleteDefinition
                 /\ ~entry.isAtomic
              THEN collectFields(FD.nested[1], absOffset, cacheLineBytes)
              ELSE <<>>)
             \o <<entry>>
             \o collectDirect(fields, k + 1, baseOffsetBytes, cacheLineBytes)

collectFields(RD, baseOffsetBytes, cacheLineBytes) ==
    IF ~RD.isCompleteDefinition THEN <<>>
    ELSE collectBases(RD.bases, 1, FALSE, baseOffsetBytes, cacheLineBytes)
         \o collectBases(RD.bases, 1, TRUE, baseOffsetBytes, cacheLineBytes)
         \o collectDirect(RD.fields, 1, baseOffsetBytes, cacheLineBytes)

(* CacheLineMap::buildBuckets: bucket i holds, in the order of fields_,    *)
(* the index of every entry whose line range reaches line i - 1.           *)
buildBuckets(fields, linesSpanned) ==
    IF linesSpanned = 0 THEN <<>>
    ELSE [i \in 1..linesSpanned |->
            LET here == {k \in DOMAIN fields :
                            /\ fields[k].startLine <= i - 1
                            /\ i - 1 <= fields[k].endLine}
            IN  [lineIndex |-> i - 1,
                 fields |-> SelectSeq([k \in DOMAIN fields |-> k],
                                      LAMBDA k : k \in here),
                 atomicCount |->
                     Cardinality({k \in here : fields[k].isAtomic}),
                 mutableCount |->
                     Cardinality({k \in here : fields[k].isMutable})]]

(* The members the records of the model are built from: the bytes a member *)
(* takes in the layout, the size of its type, and its type.  A bit-field   *)
(* takes a byte and has the size of its declared type; a zero-length array *)
(* takes nothing.                                                          *)
Member(name, storage, typeSize, QT, nested) ==
    [name |-> name, storage |-> storage, typeSize |-> typeSize, type |-> QT,
     nested |-> nested]

InnerLayout ==
    RecordLayout(12, <<>>,
        <<FieldDecl("a", 0, 4, TInt, FALSE, <<>>),
          FieldDecl("b", 32, 8, TInt, FALSE, <<>>)>>)

AtomicLayout ==
    RecordLayout(8, <<>>, <<FieldDecl("_M_i", 0, 8, TInt, FALSE, <<>>)>>)

Members ==
    { Member("data", 0, 0, TInt, <<>>),
      Member("n", 4, 4, TInt, <<>>),
      Member("k", 4, 4, TConstInt, <<>>),
      Member("tag", 12, 12, TInt, <<>>),
      Member("buf", 40, 40, TInt, <<>>),
      Member("flag", 1, 4, TInt, <<>>),
      Member("seq", 8, 8, TStdAtomic, <<AtomicLayout>>),
      Member("inner", 12, 12, TInner, <<InnerLayout>>) }

MaxMembers == 3

RECURSIVE place(_, _, _)
place(members, k, offset) ==
    IF k > Len(members) THEN <<>>
    ELSE <<FieldDecl(members[k].name, 8 * offset, members[k].typeSize,
                     members[k].type, FALSE, members[k].nested)>>
         \o place(members, k + 1, offset + members[k].storage)

RECURSIVE storage(_, _)
storage(members, k) ==
    IF k > Len(members) THEN 0
    ELSE members[k].storage + storage(members, k + 1)

(* A packed record of the given members: without a base, behind a          *)
(* non-virtual base Inner, or in front of a virtual base Inner and behind  *)
(* the pointer that finds it.  A record without members and bases has size *)
(* one; a record of zero-length arrays alone has size zero.                *)
PackedRecord(members, base) ==
    IF base = "none"
    THEN RecordLayout(IF members = <<>> THEN 1 ELSE storage(members, 1),
                      <<>>, place(members, 1, 0))
    ELSE IF base = "base"
    THEN RecordLayout(12 + storage(members, 1),
                      <<BaseSpecifier(0, FALSE, InnerLayout)>>,
                      place(members, 1, 12))
    ELSE RecordLayout(8 + storage(members, 1) + 12,
                      <<BaseSpecifier(8 + storage(members, 1), TRUE,
                                      InnerLayout)>>,
                      place(members, 1, 8))

LineSizes == {16, 64}

MapIdle ==
    /\ layoutRD = [isCompleteDefinition |-> FALSE]
    /\ cacheLineBytes_ = 0 /\ sizeBytes_ = 0 /\ linesSpanned_ = 0
    /\ totalAtomics_ = 0 /\ totalMutables_ = 0
    /\ fields_ = <<>> /\ buckets_ = <<>>
    /\ mapPhase = "idle"

(* The arguments of the constructor and the members' default values. *)
MapInit ==
    /\ \E n \in 0..MaxMembers : \E members \in [1..n -> Members] :
       \E base \in {"none", "base", "virtual base"} :
          layoutRD \in {PackedRecord(members, base),
                        [isCompleteDefinition |-> FALSE]}
    /\ cacheLineBytes_ \in LineSizes
    /\ sizeBytes_ = 0 /\ linesSpanned_ = 0
    /\ totalAtomics_ = 0 /\ totalMutables_ = 0
    /\ fields_ = <<>> /\ buckets_ = <<>>
    /\ mapPhase = "declared"

(* CacheLineMap::CacheLineMap *)
CacheLineMap ==
    /\ mapPhase = "declared"
    /\ IF ~layoutRD.isCompleteDefinition
       THEN UNCHANGED <<sizeBytes_, linesSpanned_, totalAtomics_,
                        totalMutables_, fields_, buckets_>>
       ELSE LET collected == collectFields(layoutRD, 0, cacheLineBytes_)
                lines == (layoutRD.size + cacheLineBytes_ - 1)
                            \div cacheLineBytes_
            IN  /\ sizeBytes_' = layoutRD.size
                /\ linesSpanned_' = lines
                /\ fields_' = collected
                /\ totalAtomics_' =
                      Cardinality({k \in DOMAIN collected :
                                      collected[k].isAtomic})
                /\ totalMutables_' =
                      Cardinality({k \in DOMAIN collected :
                                      collected[k].isMutable})
                /\ buckets_' = buildBuckets(collected, lines)
    /\ mapPhase' = "built"
    /\ UNCHANGED <<layoutRD, cacheLineBytes_>>
    /\ UNCHANGED <<ixVars, escVars, exitVars, storeVars, ruleVars, refVars, keyVars,
                   mainVars>>

MapNext == CacheLineMap

IxIdle == hypotheses = <<>> /\ candidates = <<>> /\ ixpc = "idle"

LibIdle == EscIdle /\ MapIdle /\ ExitIdle /\ IxIdle

----------------------------------------------------------------------------
(* CalibrationFeedbackStore on its own: ingest, registerFalsePositive and  *)
(* isKnownFalsePositive.  An ExperimentResult is [findingId, hypothesisId, *)
(* schemaVersion, verdict, power, cpuModel, turboDisabled, governor,       *)
(* coresUsed, iterations]; power is kept in hundredths, a label quality in *)
(* millionths.  The ingestion timestamp (wall clock) is left out of the    *)
(* LabeledRecord.                                                          *)

(* CalibrationFeedbackStore::validateSchema *)
validateSchema(res) ==
    /\ res.findingId # "" /\ res.hypothesisId # ""
    /\ res.schemaVersion # ""
    /\ res.iterations # 0
    /\ res.cpuModel # ""

(* CalibrationFeedbackStore::assignLabel *)
assignLabel(res) ==
    CASE res.verdict = "Confirmed"    -> "Positive"
      [] res.verdict = "Refuted"      -> "Negative"
      [] res.verdict = "Inconclusive" -> "Unlabeled"
      [] res.verdict = "Confounded"   -> "Excluded"
      [] res.verdict = "Pending"      -> "Unlabeled"

(* CalibrationFeedbackStore::computeLabelQuality, in millionths:           *)
(* min(power, 1.0) * envQuality * (1.0 - 0.05).                            *)
computeLabelQuality(res) ==
    LET powerFactor == Min({res.power, 100})
        envQuality  == Max(100 - (IF res.turboDisabled THEN 0 ELSE 15)
                               - (IF res.governor = "performance"
                                  THEN 0 ELSE 10)
                               - (IF res.coresUsed = <<>> THEN 20 ELSE 0),
                           0)
    IN  powerFactor * envQuality * 95

(* The label ingest() settles on: the quality gate, then the power gate.   *)
(* A faulty variant without the power gate comes first.                    *)
ingestLabelWithoutPowerGate(res) ==
    IF computeLabelQuality(res) < 600000 /\ assignLabel(res) # "Excluded"
    THEN "Unlabeled" ELSE assignLabel(res)

ingestLabel(res) ==
    LET label0 == assignLabel(res)
        label1 == IF computeLabelQuality(res) < 600000
                     /\ label0 # "Excluded"
                  THEN "Unlabeled" ELSE label0
    IN  IF res.power < 80 /\ label1 = "Negative"
        THEN "Unlabeled" ELSE label1

(* The LabeledRecord ingest() appends. *)
LabeledRecord(res, featureVector, hazardClass) ==
    [findingId    |-> res.findingId,
     hypothesisId |-> res.hypothesisId,
     hazardClass  |-> hazardClass,
     featureVector |-> featureVector,
     label        |-> ingestLabel(res),
     labelQuality |-> computeLabelQuality(res),
     schemaVersion |-> res.schemaVersion]

MaxIngests   == 3
MaxRegisters == 2

ExperimentResult(findingId, schemaVersion, verdict, power, turboDisabled) ==
    [findingId |-> findingId, hypothesisId |-> "H1",
     schemaVersion |-> schemaVersion, verdict |-> verdict, power |-> power,
     cpuModel |-> "x86", turboDisabled |-> turboDisabled,
     governor |-> "performance", coresUsed |-> <<2>>, iterations |-> 1000]

ResultPool ==
    { ExperimentResult("F1", "1.0", "Refuted",   90, TRUE),
      ExperimentResult("F2", "1.0", "Refuted",   95, FALSE),
      ExperimentResult("F1", "1.0", "Refuted",   70, TRUE),
      ExperimentResult("F1", "1.0", "Confirmed", 90, TRUE),
      ExperimentResult("F2", "",    "Refuted",   90, TRUE),
      [ExperimentResult("F2", "1.0", "Refuted", 90, FALSE)
          EXCEPT !.coresUsed = <<>>] }

(* HypothesisConstructor::extractFeatures: severity, confidence, number   *)
(* of escalations, then seven numbers read from the evidence string.  The  *)
(* lambda looks for the text key= anywhere in the string, so "depth=" is   *)
(* also found at the end of "max_depth=".                                  *)
extractFeatures(finding) ==
    LET ev == finding.structuralEvidence
        found(key) == {i \in DOMAIN ev :
                          \/ ev[i].key = key
                          \/ key = "depth" /\ ev[i].key = "max_depth"}
        extract(key) == IF found(key) = {} THEN 0
                        ELSE ev[Min(found(key))].num
    IN  <<finding.severity, finding.confidence, Len(finding.escalations),
          extract("sizeof"), extract("cache_lines"),
          extract("atomic_writes"), extract("mutable_fields"),
          extract("estimated_frame"), extract("depth"),
          extract("callees")>>

(* The diagnostics whose fingerprints the experiments were run on. *)
GatePool ==
    { Diag("FL010", High,   85, Likely,      FileA, 10, <<>>, EvFn(FnF)),
      Diag("FL010", Medium, 55, Speculative, FileA, 11, <<>>, EvFn(FnQf)),
      Diag("FL030", High,   80, Proven,      FileA, 12, <<>>, EvCaller(FnF)),
      Diag("FL030", Medium, 60, Likely,      FileB, 30, <<>>, EvCaller(FnQf)) }

FeaturePool ==
    {extractFeatures(d) : d \in {e \in GatePool : e.ruleID = "FL010"}}

StoreIdle == records_ = <<>> /\ falsePositiveRegistry_ = <<>>

(* CalibrationFeedbackStore::ingest; a result that fails validateSchema   *)
(* is turned away and nothing is stored.                                   *)
Ingest(res, featureVector, hazardClass) ==
    /\ Len(records_) < MaxIngests
    /\ IF validateSchema(res)
       THEN /\ records_' = Append(records_,
                       LabeledRecord(res, featureVector, hazardClass))
            /\ falsePositiveRegistry_' =
                  IF ingestLabel(res) = "Negative"
                  THEN registerFalsePositive(falsePositiveRegistry_,
                                             hazardClass)
                  ELSE falsePositiveRegistry_
       ELSE UNCHANGED storeVars
    /\ UNCHANGED <<libVars, ruleVars, refVars, keyVars, mainVars>>

(* CalibrationFeedbackStore::registerFalsePositive, called directly. *)
StoreRegister(hazardClass) ==
    /\ SeqSum([i \in DOMAIN falsePositiveRegistry_ |->
                  falsePositiveRegistry_[i].refutationCount])
          < Len(SelectSeq(records_, LAMBDA r : r.label = "Negative"))
            + MaxRegisters
    /\ falsePositiveRegistry_' =
          registerFalsePositive(falsePositiveRegistry_, hazardClass)
    /\ UNCHANGED <<records_, libVars, ruleVars, refVars, keyVars, mainVars>>

StoreNext ==
    \/ \E res \in ResultPool, f \in FeaturePool, hc \in HazardPool :
          Ingest(res, f, hc)
    \/ \E hc \in HazardPool : StoreRegister(hc)

ExtIdle == StoreIdle /\ RuleIdle /\ LibIdle

----------------------------------------------------------------------------
(* No run of main() exists: the state of the specifications that exercise  *)
(* the library routines alone.                                             *)
MainIdle ==
    /\ input = <<>> /\ pc = <<>> /\ idx = <<>> /\ jobs = <<>>
    /\ sem = <<>> /\ maxWorkers = <<>> /\ worker = <<>> /\ future = <<>>
    /\ result = <<>> /\ profiles = <<>> /\ diagnostics = <<>>
    /\ refined = <<>> /\ registry = <<>> /\ gateDropped = <<>>
    /\ sawPartial = <<>> /\ output = <<>>
    /\ irDisk = <<>> /\ errDisk = <<>>

RefNext == RefineCall \/ ApplyAdjustmentsCall

RefinerInit == RefInit /\ KeyIdle /\ MainIdle /\ ExtIdle

SpecRefiner == RefinerInit /\ [][RefNext]_vars

KeyNext == ComputeKeys

KeySpecInit == KeyInit /\ RefIdle /\ MainIdle /\ ExtIdle

SpecKey == KeySpecInit /\ [][KeyNext]_vars

(* One run of main(). *)
Init == DriverInit /\ RefIdle /\ KeyIdle /\ ExtIdle

Spec == Init /\ [][MainNext]_vars

TailInit == PostInit /\ RefIdle /\ KeyIdle /\ ExtIdle

(* The tail of main() against a filled calibration store. *)
SpecPost == TailInit /\ [][PostNext]_vars

(* Two runs of main() on the same input that share the temp directory. *)
SharedInit == TwoRunsInit /\ RefIdle /\ KeyIdle /\ ExtIdle

SpecTwoRuns == SharedInit /\ [][MainNext]_vars

(* The calibration store under ingest and registerFalsePositive calls. *)
StoreInit == StoreIdle /\ RuleIdle /\ LibIdle /\ RefIdle /\ KeyIdle /\ MainIdle

SpecStore == StoreInit /\ [][StoreNext]_vars

(* The AST consumer over one translation unit, then the refiner. *)
RulesInit == RuleInit /\ StoreIdle /\ LibIdle /\ RefIdle /\ KeyIdle /\ MainIdle

SpecRules == RulesInit /\ [][RuleNext]_vars

(* EscapeAnalysis on a record that is being written. *)
EscapeInit ==
    EscInit /\ MapIdle /\ ExitIdle /\ IxIdle /\ StoreIdle /\ RuleIdle /\ RefIdle /\ KeyIdle
        /\ MainIdle

SpecEscape == EscapeInit /\ [][EscNext]_vars

(* CacheLineMap built for a record. *)
LayoutInit ==
    MapInit /\ EscIdle /\ ExitIdle /\ IxIdle /\ StoreIdle /\ RuleIdle /\ RefIdle /\ KeyIdle
        /\ MainIdle

SpecLayout == LayoutInit /\ [][MapNext]_vars

(* main() and the value it returns. *)
ReturnInit ==
    ExitInit /\ EscIdle /\ MapIdle /\ IxIdle /\ StoreIdle /\ RuleIdle /\ RefIdle
        /\ KeyIdle /\ MainIdle

SpecExit == ReturnInit /\ [][ExitNext]_vars

----------------------------------------------------------------------------
(* Properties of the refiner.                                              *)

(* C1: whatever the diagnostics and the profiles, a second (and any later) *)
(* refine() call leaves the vector exactly as the first call left it:      *)
(* confidence, tier, escalations, suppression flag and evidence.           *)
RefineIdempotent == rpasses >= 2 => rdiags = ronce

(* C4: once an adjustment has been applied, by a refinement routine or by  *)
(* applyAdjustments with adjustments built from the evidence constants,    *)
(* the confidence lies in [0.10, 0.98], and the value the last adjustment  *)
(* left lies within that adjustment's own floor and ceiling.               *)
ConfidenceWithinBounds ==
    /\ \A i \in DOMAIN rdiags :
          /\ reverAdj[i] =>
                rdiags[i].confidence >= kFloor
                /\ rdiags[i].confidence <= kCeilingSiteProven
          /\ rlastAdj[i].applied =>
                rdiags[i].confidence >= rlastAdj[i].floor
                /\ rdiags[i].confidence <= rlastAdj[i].ceiling
    /\ alast # <<>> =>
          /\ aconf >= kFloor /\ aconf <= kCeilingSiteProven
          /\ aconf >= alast[Len(alast)].floor
          /\ aconf <= alast[Len(alast)].ceiling

(* C4 witness: a diagnostic refined twice whose last adjustment was        *)
(* stopped by a ceiling below 0.98 (the delta would have carried the       *)
(* confidence past it).                                                    *)
ClampBitesAfterTwoPasses ==
    /\ rpasses >= 2
    /\ \E i \in DOMAIN rdiags :
          /\ rlastAdj[i].applied
          /\ rlastAdj[i].delta > 0
          /\ rlastAdj[i].ceiling < kCeilingSiteProven
          /\ rdiags[i].confidence = rlastAdj[i].ceiling
          /\ ronce[i].confidence + rlastAdj[i].delta > rlastAdj[i].ceiling

----------------------------------------------------------------------------
(* Properties of the cache key.                                            *)

(* The compile arguments of a command line as the documentation describes  *)
(* them: everything after argv[0] except "-c", "-o" with its file, and the *)
(* input path.                                                             *)
RECURSIVE StripInputAndOutput(_, _)
StripInputAndOutput(args, srcPath) ==
    IF args = <<>> THEN <<>>
    ELSE IF Head(args) = "-c" \/ Head(args) = srcPath
         THEN StripInputAndOutput(Tail(args), srcPath)
    ELSE IF Head(args) = "-o" /\ Len(args) >= 2
         THEN StripInputAndOutput(Tail(Tail(args)), srcPath)
    ELSE <<Head(args)>> \o StripInputAndOutput(Tail(args), srcPath)

CompileArgs(job) == StripInputAndOutput(Tail(job.cmds[1]), job.srcPath)

(* Two argument lists that sort to the same list.                          *)
SameSorted(s, t) ==
    /\ Len(s) = Len(t)
    /\ \A x \in {s[i] : i \in DOMAIN s} \cup {t[i] : i \in DOMAIN t} :
          Cardinality({i \in DOMAIN s : s[i] = x})
              = Cardinality({i \in DOMAIN t : t[i] = x})

SameBuild(j1, j2) ==
    /\ j1.srcBytes = j2.srcBytes
    /\ j1.toolVersion = j2.toolVersion
    /\ j1.compilerPath = j2.compilerPath
    /\ j1.optLevel = j2.optLevel

(* C10 as stated: two jobs with the same source bytes, the same tool       *)
(* version (and the same compiler and optimisation level) whose compile    *)
(* arguments sort to the same list have the same key.                      *)
KeyIgnoresArgOrder ==
    kkeys # <<>> =>
        (SameBuild(kjobs[1], kjobs[2])
            /\ SameSorted(CompileArgs(kjobs[1]), CompileArgs(kjobs[2]))
         => kkeys[1] = kkeys[2])

(* C10: two jobs with the same source bytes, tool version, resolved        *)
(* compiler and optimisation level whose compile arguments (without input  *)
(* path, "-c" and "-o <file>") are the same in the same order have the     *)
(* same key.                                                               *)
KeyOfOrderedArgs ==
    kkeys # <<>> =>
        (SameBuild(kjobs[1], kjobs[2])
            /\ CompileArgs(kjobs[1]) = CompileArgs(kjobs[2])
         => kkeys[1] = kkeys[2])

(* C10 witness: keys computed for two jobs whose command lines differ (in  *)
(* the input path and in the place and name of the output file) and agree  *)
(* once these are removed.                                                 *)
KeysAgreeAcrossOutputs ==
    /\ kkeys # <<>>
    /\ SameBuild(kjobs[1], kjobs[2])
    /\ kjobs[1].srcPath # kjobs[2].srcPath
    /\ \E i \in DOMAIN kjobs[1].cmds[1] :
          kjobs[1].cmds[1][i] = "a.o"
    /\ \E i \in DOMAIN kjobs[2].cmds[1] :
          kjobs[2].cmds[1][i] = "b.o"
    /\ CompileArgs(kjobs[1]) = CompileArgs(kjobs[2])
    /\ kkeys[1] = kkeys[2]

----------------------------------------------------------------------------
(* Properties of the tail of main().                                       *)

Range(q) == {q[i] : i \in DOMAIN q}

HighAndProven(d) ==
    (d.severity = High \/ d.severity = Critical) /\ d.evidenceTier = Proven

(* C2 as stated: whatever the store holds, a High or Critical diagnostic   *)
(* of tier Proven is not removed by the calibration gate and is in the     *)
(* output.                                                                 *)
HighProvenReachesOutput ==
    \A r \in Runs :
        pc[r] = "done" =>
            \A d \in Range(refined[r]) :
                HighAndProven(d) =>
                    d \notin Range(gateDropped[r]) /\ d \in Range(output[r])

(* C2: whatever the store holds, a High or Critical diagnostic of tier     *)
(* Proven is never removed by the calibration gate, and it is in the       *)
(* output whenever it is not flagged suppressed and its severity is not    *)
(* below --min-severity.                                                   *)
HighProvenPassesGate ==
    \A r \in Runs :
        /\ \A d \in Range(gateDropped[r]) : ~HighAndProven(d)
        /\ pc[r] = "done" =>
              \A d \in Range(refined[r]) :
                  (HighAndProven(d) /\ ~d.suppressed
                      /\ d.severity >= input.minSeverity)
                  => d \in Range(output[r])

(* C2 witness: the store holds three refutations of the hazard class of a  *)
(* High/Proven diagnostic; the gate ran and removed another diagnostic;    *)
(* the High/Proven one is in the output.                                   *)
RailSavedDiagnostic ==
    \E r \in Runs :
        /\ pc[r] = "done"
        /\ input.calStore
        /\ gateDropped[r] # <<>>
        /\ \E d \in Range(refined[r]) :
              /\ HighAndProven(d)
              /\ isKnownFalsePositive(registry, mapRuleToHazardClass(d.ruleID))
              /\ d \in Range(output[r])

(* C3: a diagnostic that left the refinement pass flagged suppressed is    *)
(* not in the emitted sequence, whatever the filters and the store.        *)
SuppressedNeverEmitted ==
    \A r \in Runs :
        \A d \in Range(refined[r]) :
            d.suppressed => d \notin Range(output[r])

(* C3 witness: the run is over; the refiner flagged a diagnostic that the  *)
(* severity and tier filters and the gate would have let through; another  *)
(* diagnostic was emitted.                                                 *)
SuppressedWasFiltered ==
    \E r \in Runs :
        /\ pc[r] = "done"
        /\ output[r] # <<>>
        /\ \E d \in Range(refined[r]) :
              /\ d.suppressed
              /\ d \notin Range(gateDropped[r])
              /\ FilterKeepsSuppressed(d, input.minSeverity, input.minTier)

----------------------------------------------------------------------------
(* Properties of the IR analysis pass.                                     *)

(* The emission subprocesses of a run that are alive. *)
Subprocesses(r) ==
    {j \in DOMAIN worker[r] : worker[r][j] \in {"running", "writing"}}

Unfinished(r) ==
    {j \in DOMAIN worker[r] :
        worker[r][j] \in {"waiting", "running", "writing"}}

AfterRefine(r) == pc[r] \in {"gate", "filter", "emit", "done"}

(* C5: two runs on the same input and configuration that have both ended   *)
(* emitted the same diagnostic sequence, however their emission jobs       *)
(* interleaved and whether a job found its IR in the cache.                *)
RunsAgree ==
    \A r1, r2 \in Runs :
        (pc[r1] = "done" /\ pc[r2] = "done") => output[r1] = output[r2]

(* C6: the number of emission subprocesses of a run that are alive is at   *)
(* most min(hardware parallelism, job count), the hardware parallelism     *)
(* being hardware_concurrency(), or 1 when that is reported as 0.          *)
BoundedSubprocesses ==
    \A r \in Runs :
        Cardinality(Subprocesses(r))
            <= Min({Max(1, input.hw), Len(jobs[r])})

(* C6 witness: as many subprocesses as the bound allows are alive and a    *)
(* further worker waits for a permit.                                      *)
SemaphoreHoldsWorkerBack ==
    \E r \in Runs :
        /\ Cardinality(Subprocesses(r)) = Min({Max(1, input.hw), Len(jobs[r])})
        /\ Subprocesses(r) # {}
        /\ \E j \in DOMAIN worker[r] : worker[r][j] = "waiting"

(* C7 as stated: while the main thread parses a module or refines, no      *)
(* emission worker of the run is running.                                  *)
NoWorkerDuringParseOrRefine ==
    \A r \in Runs :
        pc[r] \in {"parse", "refine"} => Unfinished(r) = {}

(* The order the collect loop imposes: a module is parsed only after its   *)
(* job's future is ready, the jobs before it having been collected, and    *)
(* the refinement is reached only when every future is ready and no worker *)
(* is left.                                                                *)
CollectedBeforeUse ==
    \A r \in Runs :
        /\ pc[r] \in {"collect", "parse"} =>
              \A j \in 1..(idx[r] - 1) :
                  future[r][j].ready /\ worker[r][j] \in {"none", "done"}
        /\ pc[r] = "parse" =>
              future[r][idx[r]].ready
              /\ worker[r][idx[r]] \in {"none", "done"}
        /\ (pc[r] = "refine" \/ AfterRefine(r)) =>
              /\ Unfinished(r) = {}
              /\ \A j \in DOMAIN jobs[r] : future[r][j].ready

(* A step of an emission worker (acquire, compiler write, finish).         *)
WorkerStep ==
    \E r \in Runs : \E j \in DOMAIN worker[r] :
        /\ worker[r][j] \in {"waiting", "running", "writing"}
        /\ worker'[r][j] # worker[r][j]

(* C7: the main thread parses a job's module only after that job has       *)
(* finished, one job after the other, and reaches the refinement only      *)
(* when every job has been collected and no worker is left; workers of     *)
(* later jobs may run during a parse, and no worker step changes the       *)
(* profile map or the diagnostics.                                         *)
RefineAfterAllCollected ==
    /\ []CollectedBeforeUse
    /\ [][WorkerStep => UNCHANGED <<profiles, diagnostics>>]_vars

(* C7 witness: the refinement is about to start after two fresh emissions  *)
(* whose modules were parsed and profiled.                                 *)
RefineStartsAfterTwoEmissions ==
    \E r \in Runs :
        /\ pc[r] = "refine"
        /\ Cardinality({j \in DOMAIN worker[r] : worker[r][j] = "done"}) >= 2
        /\ profiles[r] # <<>>

(* C8: no run ever finds a partially written artifact, neither when it     *)
(* tests whether the artifact of a key exists nor when it parses it.       *)
NoPartialArtifactSeen == \A r \in Runs : ~sawPartial[r]

(* C9: once the refinement pass is over, every diagnostic located in a     *)
(* file whose emission exited non-zero or was killed has the confidence    *)
(* the AST pass gave it.                                                   *)
FailedFileKeepsConfidence ==
    \A r \in Runs :
        AfterRefine(r) =>
            \A j \in DOMAIN jobs[r] :
                (future[r][j].ready /\ future[r][j].exitCode # 0) =>
                    \A i \in DOMAIN refined[r] :
                        refined[r][i].file = input.srcs[jobs[r][j].src].file
                        => refined[r][i].confidence
                               = AstDiagnostics(input.srcs)[i].confidence

----------------------------------------------------------------------------
(* Properties of the calibration store.                                    *)

(* The refutations the store holds for a hazard class: the experiments     *)
(* (finding, hypothesis) among its Negative records, and the direct        *)
(* registrations, each taken as a refutation of its own.                   *)
NegativeRecords(hc) ==
    SelectSeq(records_, LAMBDA r : r.hazardClass = hc /\ r.label = "Negative")

RefutationCount(hc) ==
    SeqSum([i \in DOMAIN falsePositiveRegistry_ |->
               IF falsePositiveRegistry_[i].hazardClass = hc
               THEN falsePositiveRegistry_[i].refutationCount ELSE 0])

IndependentRefutations(hc) ==
    Cardinality({<<NegativeRecords(hc)[i].findingId,
                   NegativeRecords(hc)[i].hypothesisId>> :
                      i \in DOMAIN NegativeRecords(hc)})
    + (RefutationCount(hc) - Len(NegativeRecords(hc)))

(* C11: after any sequence of ingest and register operations, the store    *)
(* answers isKnownFalsePositive(features, class) with true only if at      *)
(* least three independent refutations of the class have been recorded.    *)
KnownOnlyAfterThreeIndependent ==
    \A hc \in HazardPool :
        isKnownFalsePositive(falsePositiveRegistry_, hc)
            => IndependentRefutations(hc) >= 3

----------------------------------------------------------------------------
(* Properties of the rules and of the diagnostics they emit.               *)

EvNum(d, key) ==
    IF EvFind(d.structuralEvidence, key) = 0 THEN 0
    ELSE d.structuralEvidence[EvFind(d.structuralEvidence, key)].num

EvSaysYes(d, key) ==
    /\ EvFind(d.structuralEvidence, key) # 0
    /\ d.structuralEvidence[EvFind(d.structuralEvidence, key)].name = <<"yes">>

LoopEnclosed(d) ==
    EvSaysYes(d, "in_loop") \/ EvSaysYes(d, "loop_writes")
        \/ EvSaysYes(d, "has_loop")

CarriesSeverityGround(d) ==
    \/ LoopEnclosed(d)
    \/ EvNum(d, "lines_spanned") >= 3
    \/ EvNum(d, "atomic_pairs_same_line") >= 1
    \/ EvNum(d, "signal_count") >= 3

HasSizeFact(d) ==
    \E k \in DOMAIN d.structuralEvidence :
        d.structuralEvidence[k].key \in
            {"sizeof", "lines_spanned", "estimated_frame", "ir_frame"}

SiteConfirmed(d) ==
    \E k \in DOMAIN d.escalations :
        LET e == d.escalations[k] IN
        \/ e.text = "IR site-confirmed: seq_cst survives lowering"
        \/ e.text = "IR confirmed: atomic write instruction(s)"
              /\ e.list[1] > 0
        \/ e.text = "IR confirmed: present in lowered IR" /\ e.a > 0

ReportedFor(d, D) ==
    /\ D.node = "FunctionDecl"
    /\ d.file = D.file
    /\ d.line >= D.line /\ d.line < D.line + 10

ColdFunctions ==
    {i \in DOMAIN tu :
        /\ tu[i].node = "FunctionDecl"
        /\ ~isFunctionHot(config_, hotCache_, i, tu[i]).hot}

CanonicalOrder(rules) ==
    SelectSeq(<<"FL010", "FL011", "FL012", "FL020", "FL021", "FL030",
                "FL031", "FL050", "FL061">>,
              LAMBDA r : \E k \in DOMAIN rules : rules[k] = r)

Count(seq, x) == Cardinality({k \in DOMAIN seq : seq[k] = x})

SameMultiset(a, b) ==
    /\ Len(a) = Len(b)
    /\ \A k \in DOMAIN a : Count(a, a[k]) = Count(b, a[k])

(* C17: whatever order the detectors were registered in, the consumer      *)
(* produces the same multiset of diagnostics over the same declarations as *)
(* it does with the same detectors registered in any other order.          *)
RegistrationOrderIrrelevant ==
    phase # "parsed" =>
        SameMultiset(astDiagnostics,
                     HandleTranslationUnit(tu, CanonicalOrder(rules_),
                                           config_, {}, <<>>).out)

SeveralRulesReportedOutOfOrder ==
    /\ phase = "analyzed"
    /\ rules_ # CanonicalOrder(rules_)
    /\ astDiagnostics #
          HandleTranslationUnit(tu, CanonicalOrder(rules_), config_, {},
                                <<>>).out
    /\ \E a, b \in DOMAIN astDiagnostics :
          /\ astDiagnostics[a].ruleID # astDiagnostics[b].ruleID
          /\ \E i \in DOMAIN tu :
                /\ ReportedFor(astDiagnostics[a], tu[i])
                /\ ReportedFor(astDiagnostics[b], tu[i])

----------------------------------------------------------------------------
(* Properties of EscapeAnalysis and CacheLineMap.                          *)

(* C15: adding a field to a record, or to its base, never turns the answer *)
(* of mayEscapeThread for the record from true to false.                   *)
EscapeMonotone ==
    escapedBefore => mayEscapeThread(record)

PlainFieldAddedToEscaping ==
    /\ edited = "field"
    /\ escapedBefore
    /\ Len(record.fields) >= 2
    /\ record.fields[Len(record.fields)] = TInt
    /\ mayEscapeThread(record)

RECURSIVE ReferencesFrom(_)
ReferencesFrom(i) ==
    IF i > Len(buckets_) THEN 0
    ELSE Len(buckets_[i].fields) + ReferencesFrom(i + 1)

BucketReferences == ReferencesFrom(1)

RECURSIVE LinesFrom(_)
LinesFrom(k) ==
    IF k > Len(fields_) THEN 0
    ELSE fields_[k].endLine - fields_[k].startLine + 1 + LinesFrom(k + 1)

LinesOfEntries == LinesFrom(1)

(* C16: once the map is built, the field references stored over all        *)
(* buckets number the sum over the field entries of (end line - start line *)
(* + 1): every entry is referenced once by every bucket of its range and   *)
(* by no other bucket.                                                     *)
BucketCoverage ==
    mapPhase = "built" =>
        /\ BucketReferences = LinesOfEntries
        /\ \A k \in DOMAIN fields_ :
           \A line \in 0..(fields_[k].endLine) :
              line >= fields_[k].startLine
                 => /\ line < Len(buckets_)
                    /\ Count(buckets_[line + 1].fields, k) = 1

(* The same for the records every field of which ends within the record    *)
(* and which have a size.                                                  *)
BucketCoverageWithinRecord ==
    (/\ mapPhase = "built"
     /\ sizeBytes_ > 0
     /\ \A k \in DOMAIN fields_ :
           fields_[k].offsetBytes + fields_[k].sizeBytes <= sizeBytes_)
        => BucketReferences = LinesOfEntries

----------------------------------------------------------------------------
(* Properties of the refiner's frame.                                      *)

Identity(d) ==
    <<d.ruleID, d.title, d.severity, d.file, d.line, d.column>>

(* C18: a call of refine leaves the rule id, the title, the severity and   *)
(* the location of every diagnostic of the vector as they were, whatever   *)
(* the rule of the diagnostic and the profiles the refiner holds.          *)
RefineKeepsIdentity ==
    [][/\ Len(rdiags') = Len(rdiags)
       /\ \A k \in DOMAIN rdiags :
             Identity(rdiags'[k]) = Identity(rdiags[k])]_vars

SuppressedKeptSeverity ==
    /\ rpasses >= 1
    /\ \E k \in DOMAIN rdiags :
          /\ rdiags[k].suppressed
          /\ rdiags[k].severity = High
          /\ rdiags[k].title = "Large Stack Frame"
    /\ \E k \in DOMAIN rdiags :
          /\ reverAdj[k]
          /\ ~rdiags[k].suppressed

----------------------------------------------------------------------------
(* Properties of the emitted sequence.                                     *)

(* a may stand in front of b: its severity is higher, or the severities    *)
(* are equal and its path is the smaller string, or the paths are equal    *)
(* too and its line is not the larger one.                                 *)
InOrder(a, b) ==
    \/ a.severity > b.severity
    \/ /\ a.severity = b.severity
       /\ FileOrder(a.file) < FileOrder(b.file)
    \/ /\ a.severity = b.severity
       /\ a.file = b.file
       /\ a.line <= b.line

(* C19: the emitted diagnostics stand in the order of descending severity, *)
(* then of ascending file path, then of ascending line.                    *)
EmittedInOrder ==
    \A r \in Runs :
        pc[r] = "done" =>
            \A i, j \in DOMAIN output[r] :
                i < j => InOrder(output[r][i], output[r][j])

ReorderedByFileOrLine ==
    \E r \in Runs :
        /\ pc[r] = "done"
        /\ Len(output[r]) = 2
        /\ output[r][1].severity = output[r][2].severity
        /\ \/ FileOrder(output[r][1].file) < FileOrder(output[r][2].file)
           \/ output[r][1].line < output[r][2].line
        /\ Len(refined[r]) = 2
        /\ refined[r][1].ruleID = output[r][2].ruleID
        /\ refined[r][1].line = output[r][2].line
        /\ refined[r][1].ruleID # output[r][1].ruleID

----------------------------------------------------------------------------
(* Properties of the exit code.                                            *)

(* C20: main() returns 0 when it reported no diagnostic, 1 when it         *)
(* reported one or more, and 2 when, and only when, the tool could not     *)
(* process its input.                                                      *)
ExitCodeAsDocumented ==
    xpc = "returned" =>
        /\ exitCode \in {0, 1, 2}
        /\ exitCode = 2 <=> xret # 0
        /\ exitCode = 0 => xwritten = <<>>
        /\ exitCode = 1 => xwritten # <<>>

(* What holds of the runs that got past the command line and could write   *)
(* their output.                                                           *)
ExitCodeOfCompletedRun ==
    (/\ xpc = "returned"
     /\ xargs.valid
     /\ xargs.outputFile = "" \/ OpensForWriting(xargs.outputFile))
        => exitCode = IF xret # 0 THEN 2
                      ELSE IF xwritten = <<>> THEN 0 ELSE 1

-----------------------------------------------------------------------------
(* Properties of a run whose input the tool refused.                       *)

(* C21: when tool.run reports that the input could not be processed, the   *)
(* run returns the tool-error exit code 2 and emits no diagnostic at all,  *)
(* not even one the rules collected before the failure.                    *)
RefusedInputEmitsNothing ==
    (xpc = "returned" /\ xargs.valid /\ xret # 0)
        => exitCode = 2 /\ xwritten = <<>>

(* What holds of a refused input: the IR pass is skipped, so whatever is   *)
(* emitted is emitted with the confidence the rules gave it.               *)
RefusedInputSkipsIRPass ==
    (xpc \in {"refined", "sorted", "returned"} /\ xret # 0)
        => \A i \in DOMAIN xdiags : xdiags[i].escalations = <<>>

-----------------------------------------------------------------------------
(* Properties of the files the IR driver leaves behind.                    *)

(* A second copy of a.cpp in another directory, compiled with the same     *)
(* arguments: the same bytes, hence the same key, irFile and errFile.  Its *)
(* emission is the one that runs into the 120 s limit.                     *)
SrcACopy == Source("gen/a.cpp", <<"gen", "a.cpp">>, <<"int x;">>,
                   "/usr/bin/clang++",
                   << <<"clang++", "-DA", "-c", "gen/a.cpp", "-o", "a.o">> >>,
                   "timeout", <<>>, <<>>)

MaxCopySrcs == 3

(* One run of main() on sources among which a.cpp and its copy occur. *)
CopiesInit ==
    /\ \E srcs \in SeqsUpTo({SrcA, SrcACopy, SrcB}, MaxCopySrcs),
          hw \in 0..MaxHw, irPass, calStore \in BOOLEAN :
          /\ \A i, k \in DOMAIN srcs : i # k => srcs[i] # srcs[k]
          /\ \E i, k \in DOMAIN srcs : srcs[i] = SrcA /\ srcs[k] = SrcACopy
          /\ MainInit({1}, Input(srcs, hw, irPass, calStore, Informational,
                                 Speculative))
    /\ RefIdle /\ KeyIdle /\ ExtIdle

SpecCopies == CopiesInit /\ [][MainNext]_vars

(* Job j of run r has been through the collect loop. *)
Collected(r, j) ==
    \/ pc[r] \in {"collect", "parse"} /\ j < idx[r]
    \/ pc[r] = "refine"
    \/ AfterRefine(r)

CleanedUp(r, j) ==
    /\ ~errDisk[jobs[r][j].key]
    /\ future[r][j].exitCode = 0 => irDisk[jobs[r][j].key] # "absent"
    /\ future[r][j].exitCode # 0 => irDisk[jobs[r][j].key] = "absent"

(* C22: once the driver has collected an emission job, the job's error     *)
(* file is gone, and the job's IR file is on disk if the job succeeded and *)
(* gone if it failed.                                                      *)
CollectedJobsCleanedUp ==
    \A r \in Runs : \A j \in DOMAIN jobs[r] :
        Collected(r, j) => CleanedUp(r, j)

(* The same at the end of the collect loop only, when no worker is left    *)
(* that could write a file again.                                          *)
AllJobsCleanedUp ==
    \A r \in Runs :
        (pc[r] = "refine" \/ AfterRefine(r)) =>
            \A j \in DOMAIN jobs[r] : CleanedUp(r, j)

(* What the cleanup does keep, copies or not: after the collect loop no    *)
(* error file is left, and no IR file of a key all of whose jobs failed.   *)
NoErrorFileLeft ==
    \A r \in Runs :
        (pc[r] = "refine" \/ AfterRefine(r)) =>
            \A j \in DOMAIN jobs[r] :
                /\ ~errDisk[jobs[r][j].key]
                /\ (\A k \in DOMAIN jobs[r] :
                       jobs[r][k].key = jobs[r][j].key
                           => future[r][k].exitCode # 0)
                   => irDisk[jobs[r][j].key] = "absent"

-----------------------------------------------------------------------------
(* FL050 on functions with nested ifs and switches.                        *)

MaxBranches == 6
MaxSwitches == 2

SwitchCases == {7, 8}

(* The if and switch statements of a function body in the order the        *)
(* visitor reaches them, each with the number of ifs around it (itself     *)
(* included for an if): a statement is nested in the one before it, or     *)
(* follows one of the statements that enclose that one.                    *)
BranchStmt(node, depth, cases, line) ==
    [Stmt(node, "", {}, 0, line) EXCEPT !.depth = depth, !.cases = cases]

DepthOfLast(body) == IF body = <<>> THEN 0 ELSE body[Len(body)].depth

RECURSIVE BranchBodies(_)
BranchBodies(n) ==
    IF n = 0 THEN {<<>>}
    ELSE LET shorter == BranchBodies(n - 1)
             longest == {b \in shorter : Len(b) = n - 1}
         IN  shorter
             \cup {Append(b, BranchStmt("IfStmt", d, 0, 70 + n)) :
                      <<b, d>> \in {x \in longest \X (1..n) :
                                       x[2] <= DepthOfLast(x[1]) + 1}}
             \cup {Append(b, BranchStmt("SwitchStmt", DepthOfLast(b), c, 70 + n)) :
                      <<b, c>> \in {x \in longest \X SwitchCases :
                                       Cardinality({k \in DOMAIN x[1] :
                                           x[1][k].node = "SwitchStmt"})
                                           < MaxSwitches}}

(* route: a function whose body holds these statements and nothing else    *)
(* a rule looks for; hot by annotation, or cold.                           *)
DeclRoute(body, annotations) ==
    FunctionDecl(<<"route">>, FileA, 70, annotations, "", body, <<>>, <<>>)

BranchInit ==
    /\ \E body \in BranchBodies(MaxBranches),
          annotations \in {{}, {"faultline_hot"}} :
          tu = <<DeclRoute(body, annotations)>>
    /\ rules_ \in {<<"FL050">>, <<"FL061", "FL050">>}
    /\ config_ = [hotFunctionPatterns |-> {}, hotFilePatterns |-> {}]
    /\ hotCache_ = {}
    /\ diagnostics_ = <<>>
    /\ astDiagnostics = <<>>
    /\ phase = "parsed"
    /\ StoreIdle /\ LibIdle /\ RefIdle /\ KeyIdle /\ MainIdle

SpecBranches == BranchInit /\ [][RuleNext]_vars


(* The FL050 diagnostics by kind. *)
EvName(d, key) ==
    IF EvFind(d.structuralEvidence, key) = 0 THEN <<>>
    ELSE d.structuralEvidence[EvFind(d.structuralEvidence, key)].name

NestingDiagnostics ==
    SelectSeq(diagnostics_, LAMBDA d :
        d.ruleID = "FL050" /\ EvName(d, "type") = <<"nested_if">>)

SwitchDiagnostics ==
    SelectSeq(diagnostics_, LAMBDA d :
        d.ruleID = "FL050" /\ EvName(d, "type") = <<"switch">>)

RouteIsHot == isFunctionHot(config_, hotCache_, 1, tu[1]).hot

Ifs(body) == {k \in DOMAIN body : body[k].node = "IfStmt"}

LargeSwitches(body) ==
    {k \in DOMAIN body : body[k].node = "SwitchStmt" /\ body[k].cases >= 8}

FiveNestedIfs ==
    [k \in 1..5 |-> BranchStmt("IfStmt", k, 0, 70 + k)]

(* C23: for a hot function FL050 emits at most one nesting diagnostic,     *)
(* located at the deepest nested if and reporting that depth, and one      *)
(* diagnostic per switch of at least eight cases; five nested ifs give     *)
(* exactly one diagnostic, with depth 5 and severity Medium.               *)
OneNestingDiagnosticAtDeepest ==
    (phase \in {"analyzed", "refined"} /\ RouteIsHot) =>
        LET body == tu[1].body
            nest == NestingDiagnostics
        IN  /\ Len(nest) <= 1
            /\ nest # <<>> =>
                  /\ EvNum(nest[1], "depth") = maxDepth(body)
                  /\ \E k \in Ifs(body) :
                        /\ body[k].depth = maxDepth(body)
                        /\ body[k].line = nest[1].line
            /\ Len(SwitchDiagnostics) = Cardinality(LargeSwitches(body))
            /\ body = FiveNestedIfs =>
                  /\ Len(diagnostics_) = 1
                  /\ EvNum(diagnostics_[1], "depth") = 5
                  /\ diagnostics_[1].severity = Medium

(* What FL050 does emit for a hot function: one High diagnostic per large  *)
(* switch, and, when some if is nested four deep or more, one Medium       *)
(* diagnostic at the first if the visitor meets at depth four, with        *)
(* depth=4 and the deepest nesting as max_depth; nothing for a cold one.   *)
OneNestingDiagnosticAtThreshold ==
    phase \in {"analyzed", "refined"} =>
        LET body == tu[1].body
            nest == NestingDiagnostics
            deep == {k \in Ifs(body) : body[k].depth >= BranchThreshold}
        IN  IF ~RouteIsHot THEN diagnostics_ = <<>>
            ELSE
            /\ Len(nest) = (IF deep = {} THEN 0 ELSE 1)
            /\ nest # <<>> =>
                  /\ EvNum(nest[1], "depth") = BranchThreshold
                  /\ EvNum(nest[1], "max_depth") = maxDepth(body)
                  /\ nest[1].line = body[Min(deep)].line
                  /\ nest[1].severity = Medium
            /\ Len(SwitchDiagnostics) = Cardinality(LargeSwitches(body))
            /\ \A k \in DOMAIN SwitchDiagnostics :
                  SwitchDiagnostics[k].severity = High

-----------------------------------------------------------------------------
(* FL090 on record declarations.                                           *)

MaxRecordFields == 2

AmplifyTypes ==
    {TInt, TConstInt, TStdAtomic, TAtomicPointer, TMutex, TVolatileInt}

(* sizeof of the record: one line, two lines, one byte more, three lines,  *)
(* and the 280 bytes of HazardousState of the test sample.                 *)
RecordSizes == {64, 128, 129, 192, 280}

(* The translation unit holds one record: declared in the source, or the   *)
(* closure type of a lambda, or declared by the compiler; forward-declared *)
(* or defined; without a base or with a base that holds an atomic or a     *)
(* mutex.                                                                  *)
AmplifyInit ==
    /\ \E fields \in SeqsUpTo(AmplifyTypes, MaxRecordFields)
                     \cup {<<TStdAtomic, TStdAtomic, TStdAtomic, TInt, TInt>>},
          bases \in {<<>>, <<CXXRecordDecl(TRUE, <<TC11Atomic>>, <<>>)>>,
                     <<CXXRecordDecl(TRUE, <<TMutex>>, <<>>)>>},
          sizeBytes \in RecordSizes, complete \in BOOLEAN,
          origin \in {"declared", "implicit", "lambda"} :
          tu = <<RecordDecl(<<"HazardousState">>, FileA, 152,
                            CXXRecordDecl(complete, fields, bases),
                            origin = "implicit", origin = "lambda",
                            sizeBytes)>>
    /\ rules_ \in {<<"FL090">>, <<"FL050", "FL090">>}
    /\ config_ = [hotFunctionPatterns |-> {}, hotFilePatterns |-> {}]
    /\ hotCache_ = {}
    /\ diagnostics_ = <<>>
    /\ astDiagnostics = <<>>
    /\ phase = "parsed"
    /\ StoreIdle /\ LibIdle /\ RefIdle /\ KeyIdle /\ MainIdle

SpecAmplify == AmplifyInit /\ [][RuleNext]_vars

(* The three signals, read off the declaration. *)
RECURSIVE HasAtomicField(_)
HasAtomicField(RD) ==
    \/ \E k \in DOMAIN RD.fields : RD.fields[k] \in {TC11Atomic, TStdAtomic}
    \/ \E b \in DOMAIN RD.bases : HasAtomicField(RD.bases[b])

LinesSpanned(sizeBytes) == (sizeBytes + 63) \div 64

AllThreeSignals(D) ==
    /\ LinesSpanned(D.sizeBytes) >= 3
    /\ HasAtomicField(D)
    /\ mayEscapeThread(D)

DeclaredRecord(D) ==
    D.node = "CXXRecordDecl" /\ D.isCompleteDefinition
        /\ ~D.isImplicit /\ ~D.isLambda

AmplifyDiagnostics ==
    SelectSeq(astDiagnostics, LAMBDA d : d.ruleID = "FL090")

(* C24: FL090 fires on a record exactly when it spans at least three cache *)
(* lines, has an atomic field and the escape model answers yes; the        *)
(* diagnostic is Critical, with confidence 0.88 and evidence tier Likely.  *)
AmplifyFiresOnThreeSignals ==
    (phase \in {"analyzed", "refined"} /\ DeclaredRecord(tu[1])) =>
        /\ AmplifyDiagnostics # <<>> <=> AllThreeSignals(tu[1])
        /\ \A k \in DOMAIN AmplifyDiagnostics :
              /\ AmplifyDiagnostics[k].severity = Critical
              /\ AmplifyDiagnostics[k].confidence = 88
              /\ AmplifyDiagnostics[k].evidenceTier = Likely

(* What FL090 does: it fires on a record defined in the source exactly     *)
(* when the three signals are present, once, and on no other record; the   *)
(* diagnostic is Critical with confidence 0.90, and its tier is the one a  *)
(* Diagnostic is constructed with, Speculative.                            *)
AmplifyFiresAtDefaultTier ==
    phase \in {"analyzed", "refined"} =>
        /\ Len(AmplifyDiagnostics)
              = (IF DeclaredRecord(tu[1]) /\ AllThreeSignals(tu[1])
                 THEN 1 ELSE 0)
        /\ \A k \in DOMAIN AmplifyDiagnostics :
              /\ AmplifyDiagnostics[k].severity = Critical
              /\ AmplifyDiagnostics[k].confidence = 90
              /\ AmplifyDiagnostics[k].evidenceTier = Speculative
              /\ EvNum(AmplifyDiagnostics[k], "signal_count") = 3

-----------------------------------------------------------------------------
(* Properties of the refinement of stack-frame diagnostics.                *)

(* The profile map built from module M holds a profile of function D whose *)
(* allocas sum to less than the threshold.                                 *)
SmallFrameIn(D, M) ==
    \E k \in DOMAIN analyzeModule(<<>>, M) :
        /\ analyzeModule(<<>>, M)[k].demangledName = D.name
        /\ analyzeModule(<<>>, M)[k].totalAllocaBytes < StackThreshold

(* C25: when the function of an FL021 diagnostic has an IR profile whose   *)
(* summed alloca size is below the 2048-byte threshold, the refinement     *)
(* sets the diagnostic's suppressed flag and changes nothing else of it.   *)
SmallFrameSuppressed ==
    [][(phase = "analyzed" /\ phase' = "refined") =>
        \A M \in RuleModules :
            diagnostics_' = refine(diagnostics_, analyzeModule(<<>>, M)) =>
                \A k \in DOMAIN diagnostics_ : \A i \in DOMAIN tu :
                    (/\ diagnostics_[k].ruleID = "FL021"
                     /\ ReportedFor(diagnostics_[k], tu[i])
                     /\ SmallFrameIn(tu[i], M))
                    => diagnostics_'[k]
                          = [diagnostics_[k] EXCEPT !.suppressed = TRUE]]_vars

(* What the refiner does with the diagnostics the FL021 rule emits: they   *)
(* name no function, no profile is found, and they are left as they are.   *)
StackFrameDiagnosticsUntouched ==
    [][(phase = "analyzed" /\ phase' = "refined") =>
        \A k \in DOMAIN diagnostics_ :
            diagnostics_[k].ruleID = "FL021"
                => /\ extractFunctionName(diagnostics_[k]) = <<>>
                   /\ diagnostics_'[k] = diagnostics_[k]]_vars

(* What refineFL021 does with a diagnostic that does name its function,    *)
(* when it finds the profile: a frame of 1 to 2047 bytes sets the flag and *)
(* appends one escalation; a frame of 0 bytes sets no flag.                *)
SmallFrameSuppressedWithNote ==
    [][rpasses' = rpasses + 1 =>
        \A k \in DOMAIN rdiags :
            LET d == rdiags[k]
                pi == findProfile(rprofiles, extractFunctionName(d))
            IN  (d.ruleID = "FL021" /\ pi # 0) =>
                   IF rprofiles[pi].totalAllocaBytes = 0
                   THEN rdiags'[k].suppressed = d.suppressed
                   ELSE IF rprofiles[pi].totalAllocaBytes < StackThreshold
                   THEN /\ rdiags'[k].suppressed
                        /\ Len(rdiags'[k].escalations)
                              = Len(d.escalations) + 1
                        /\ [rdiags'[k] EXCEPT !.suppressed = d.suppressed,
                                              !.escalations = d.escalations]
                              = d
                   ELSE rdiags'[k].suppressed = d.suppressed]_vars

-----------------------------------------------------------------------------
(* Properties of the calibration gate against the store.                   *)

(* The refutations of the pair (features, hc) the store has seen, counted  *)
(* in the gate's favour: every Negative record of the pair, whether or not *)
(* its experiment is independent of the others, and every registration     *)
(* made directly for the class, whatever its feature vector was.           *)
PairRefutations(features, hc) ==
    Len(SelectSeq(NegativeRecords(hc),
                  LAMBDA r : r.featureVector = features))
    + (RefutationCount(hc) - Len(NegativeRecords(hc)))

(* C26: the calibration gate drops a diagnostic only if the pair of its    *)
(* feature fingerprint and its hazard class has been refuted by enough     *)
(* (three) experiments.                                                    *)
GateDropsOnlyRefutedPair ==
    \A d \in GatePool :
        GateDrops(d, falsePositiveRegistry_)
            => PairRefutations(extractFeatures(d),
                               mapRuleToHazardClass(d.ruleID))
                  >= RefutationsNeeded

(* What the gate does go by: the refutations of the hazard class, of any   *)
(* fingerprint, and the safety rail.                                       *)
GateDropsOnlyRefutedClass ==
    \A d \in GatePool :
        GateDrops(d, falsePositiveRegistry_)
            <=> /\ RefutationCount(mapRuleToHazardClass(d.ruleID))
                      >= RefutationsNeeded
                /\ ~(d.severity >= High /\ d.evidenceTier = Proven)

-----------------------------------------------------------------------------
(* HypothesisConstructor::construct and InteractionDetector::detect, run   *)
(* on the diagnostics the rules emitted for a translation unit.            *)

(* HypothesisTemplateRegistry: the hazard classes that have a template.    *)
TemplateClasses ==
    {"CacheGeometry", "FalseSharing", "AtomicOrdering", "AtomicContention",
     "LockContention", "HeapAllocation", "StackPressure", "VirtualDispatch",
     "StdFunction", "ContendedQueue", "NUMALocality", "HazardAmplification"}

(* The findingId text: ruleID "-" file ":" line. *)
constructFindingId(finding) ==
    <<finding.ruleID, "-">> \o finding.file \o <<":", ToString(finding.line)>>

(* HypothesisConstructor::construct: <<>> is std::nullopt. *)
construct(finding) ==
    IF mapRuleToHazardClass(finding.ruleID) \notin TemplateClasses THEN <<>>
    ELSE <<[findingId          |-> constructFindingId(finding),
            hazardClass        |-> mapRuleToHazardClass(finding.ruleID),
            structuralFeatures |-> extractFeatures(finding)]>>

(* InteractionEligibilityMatrix::templates_ *)
InteractionTemplates ==
    <<[id |-> "IX-001", components |-> <<"CacheGeometry", "AtomicContention">>],
      [id |-> "IX-002", components |-> <<"FalseSharing", "AtomicContention">>],
      [id |-> "IX-003", components |-> <<"AtomicOrdering", "AtomicContention">>],
      [id |-> "IX-004", components |-> <<"AtomicContention", "NUMALocality">>],
      [id |-> "IX-005", components |-> <<"LockContention", "HeapAllocation">>],
      [id |-> "IX-006", components |-> <<"VirtualDispatch", "DeepConditional">>],
      [id |-> "IX-007", components |->
          <<"CacheGeometry", "AtomicContention", "NUMALocality">>]>>

TemplateMatches(t, a, b) ==
    /\ Len(t.components) = 2
    /\ \/ t.components[1] = a /\ t.components[2] = b
       \/ t.components[1] = b /\ t.components[2] = a

(* InteractionEligibilityMatrix::isEligible *)
isEligible(a, b) ==
    \E k \in DOMAIN InteractionTemplates :
        TemplateMatches(InteractionTemplates[k], a, b)

(* InteractionEligibilityMatrix::findTemplate: the id of the first         *)
(* template that matches, "" for nullptr.                                  *)
findTemplate(a, b) ==
    LET at == {k \in DOMAIN InteractionTemplates :
                  TemplateMatches(InteractionTemplates[k], a, b)}
    IN  IF at = {} THEN "" ELSE InteractionTemplates[Min(at)].id

(* The grouping key detect() cuts out of a findingId: what follows the     *)
(* first "-", up to the last ":".                                          *)
ScopeKey(id) ==
    LET dashes == {k \in DOMAIN id : id[k] = "-"}
        scope  == IF dashes = {} THEN id
                  ELSE SubSeq(id, Min(dashes) + 1, Len(id))
        colons == {k \in DOMAIN scope : scope[k] = ":"}
    IN  IF colons = {} THEN scope
        ELSE SubSeq(scope, 1,
                    (CHOOSE k \in colons : \A m \in colons : m <= k) - 1)

(* scopeGroups[scope]: the indices of the hypotheses of a key, ascending.  *)
ScopeGroup(hyps, scope) ==
    {i \in DOMAIN hyps : ScopeKey(hyps[i].findingId) = scope}

(* The two nested loops over one group, from the pair (i, j) on.           *)
RECURSIVE GroupCandidates(_, _, _, _, _)
GroupCandidates(hyps, scope, group, i, j) ==
    IF i > Len(hyps) THEN <<>>
    ELSE IF j > Len(hyps)
    THEN GroupCandidates(hyps, scope, group, i + 1, i + 2)
    ELSE IF i \notin group \/ j \notin group
            \/ ~isEligible(hyps[i].hazardClass, hyps[j].hazardClass)
    THEN GroupCandidates(hyps, scope, group, i, j + 1)
    ELSE <<[declarationScope |-> scope,
            findingIds       |-> <<hyps[i].findingId, hyps[j].findingId>>,
            hazardClasses    |-> <<hyps[i].hazardClass, hyps[j].hazardClass>>,
            matchedTemplate  |-> findTemplate(hyps[i].hazardClass,
                                              hyps[j].hazardClass)]>>
         \o GroupCandidates(hyps, scope, group, i, j + 1)

(* InteractionDetector::detect, the groups visited in the given order      *)
(* (the iteration order of the unordered_map).                             *)
RECURSIVE detect(_, _)
detect(hyps, order) ==
    IF order = <<>> THEN <<>>
    ELSE (IF Cardinality(ScopeGroup(hyps, Head(order))) < 2 THEN <<>>
          ELSE GroupCandidates(hyps, Head(order),
                               ScopeGroup(hyps, Head(order)), 1, 2))
         \o detect(hyps, Tail(order))

(* One hypothesis for every diagnostic that has a template. *)
RECURSIVE constructAll(_)
constructAll(ds) ==
    IF ds = <<>> THEN <<>>
    ELSE construct(Head(ds)) \o constructAll(Tail(ds))

ConstructHypotheses ==
    /\ phase = "analyzed" /\ ixpc = "idle"
    /\ hypotheses' = constructAll(diagnostics_)
    /\ ixpc' = "constructed"
    /\ UNCHANGED candidates
    /\ UNCHANGED <<escVars, mapVars, exitVars, storeVars, ruleVars, refVars,
                   keyVars, mainVars>>

(* The orders in which the groups of hyps can be visited. *)
ScopeOrders(hyps) ==
    LET keys == {ScopeKey(hyps[i].findingId) : i \in DOMAIN hyps}
    IN  {o \in SeqsUpTo(keys, Cardinality(keys)) :
            /\ Len(o) = Cardinality(keys)
            /\ \A a, b \in DOMAIN o : a # b => o[a] # o[b]}

(* detect() called for the first time.  After the grouping it asks for     *)
(* InteractionEligibilityMatrix::instance(), whose constructor reads       *)
(* lookup(HazardClass::DeepConditional)->counterSet although the registry  *)
(* has no DeepConditional template: a null pointer is dereferenced, and    *)
(* the process either dies there or goes on with counters read from        *)
(* nowhere (which no candidate shows).                                     *)
Detect ==
    /\ ixpc = "constructed"
    /\ \/ /\ ixpc' = "crashed"
          /\ UNCHANGED candidates
       \/ /\ ixpc' = "detected"
          /\ \E order \in ScopeOrders(hypotheses) :
                candidates' = detect(hypotheses, order)
    /\ UNCHANGED hypotheses
    /\ UNCHANGED <<escVars, mapVars, exitVars, storeVars, ruleVars, refVars,
                   keyVars, mainVars>>

InteractNext == RunConsumer \/ ConstructHypotheses \/ Detect

InteractInit ==
    /\ RuleInit
    /\ StoreIdle /\ LibIdle /\ RefIdle /\ KeyIdle /\ MainIdle

SpecInteract == InteractInit /\ [][InteractNext]_vars

(* The declaration a hypothesis belongs to: that of the diagnostic it was  *)
(* constructed from.                                                       *)
ScopeOfFinding(id) ==
    {i \in DOMAIN tu :
        \E k \in DOMAIN astDiagnostics :
            /\ constructFindingId(astDiagnostics[k]) = id
            /\ ReportedFor(astDiagnostics[k], tu[i])}

EligiblePairs ==
    {p \in (DOMAIN hypotheses) \X (DOMAIN hypotheses) :
        /\ p[1] < p[2]
        /\ isEligible(hypotheses[p[1]].hazardClass,
                      hypotheses[p[2]].hazardClass)}

CandidateFor(p) ==
    \E c \in DOMAIN candidates :
        candidates[c].findingIds
            = <<hypotheses[p[1]].findingId, hypotheses[p[2]].findingId>>

(* C27: the detector emits a candidate for every eligible pair of findings *)
(* of one declaration scope, and none for a pair of findings of different  *)
(* declaration scopes.                                                     *)
CandidatesPairWithinDeclaration ==
    ixpc \in {"detected", "crashed"} =>
        /\ \A p \in EligiblePairs :
              ScopeOfFinding(hypotheses[p[1]].findingId)
                  = ScopeOfFinding(hypotheses[p[2]].findingId)
              => CandidateFor(p)
        /\ \A c \in DOMAIN candidates :
              ScopeOfFinding(candidates[c].findingIds[1])
                  = ScopeOfFinding(candidates[c].findingIds[2])

(* What detect() returns when it returns: one candidate for every eligible *)
(* pair of hypotheses of one FILE, with the template of the pair, and no   *)
(* other.                                                                  *)
CandidatesPairWithinFile ==
    ixpc = "detected" =>
        /\ Len(candidates) = Cardinality({p \in EligiblePairs :
              ScopeKey(hypotheses[p[1]].findingId)
                  = ScopeKey(hypotheses[p[2]].findingId)})
        /\ \A p \in EligiblePairs :
              ScopeKey(hypotheses[p[1]].findingId)
                  = ScopeKey(hypotheses[p[2]].findingId)
              => CandidateFor(p)
        /\ \A c \in DOMAIN candidates :
              /\ ScopeKey(candidates[c].findingIds[1])
                    = ScopeKey(candidates[c].findingIds[2])
              /\ candidates[c].declarationScope
                    = ScopeKey(candidates[c].findingIds[1])
              /\ candidates[c].matchedTemplate # ""

(* Without the crash, the part of the statement about pairs within one     *)
(* declaration holds; the part about different declarations does not.      *)
NoCandidateAcrossDeclarations ==
    \A c \in DOMAIN candidates :
        ScopeOfFinding(candidates[c].findingIds[1])
            = ScopeOfFinding(candidates[c].findingIds[2])

-----------------------------------------------------------------------------
(* Properties of the escape model on records with callable fields.         *)

IsCallableType(QT) == "(*)" \in QT.canon \/ QT.record = "std::function"

IsSharedStateType(QT) ==
    \/ isAtomicType(QT) \/ isSyncType(QT) \/ isSharedOwnershipType(QT)
    \/ QT.volatileQualified

(* The record holds, itself or in a base, a field whose type satisfies one *)
(* of the tests.                                                           *)
RECURSIVE HasFieldOf(_, _, _)
HasFieldOf(RD, sharedState, callable) ==
    /\ RD.isCompleteDefinition
    /\ \/ \E k \in DOMAIN RD.fields :
             \/ sharedState /\ IsSharedStateType(RD.fields[k])
             \/ callable /\ IsCallableType(RD.fields[k])
       \/ \E b \in DOMAIN RD.bases :
             HasFieldOf(RD.bases[b], sharedState, callable)

(* C28: the escape model returns true for every record that holds,         *)
(* directly or through a base, a field that is an atomic word, a           *)
(* synchronization primitive, a shared-ownership pointer, a type-erased    *)
(* callable or function pointer, or volatile.                              *)
EscapesWithListedField ==
    HasFieldOf(record, TRUE, TRUE) => mayEscapeThread(record)

(* What the code does: the escape model is true exactly for the records    *)
(* with an atomic, synchronization, shared-ownership or volatile field;    *)
(* callable fields do not count, in the record or in a base.               *)
EscapesExactlyWithSharedStateField ==
    mayEscapeThread(record) <=> HasFieldOf(record, TRUE, FALSE)

(* hasCallbackMembers does see the callable fields of the record itself. *)
CallbackMembersSeenInRecord ==
    hasCallbackMembers(record)
        <=> /\ record.isCompleteDefinition
            /\ \E k \in DOMAIN record.fields :
                  IsCallableType(record.fields[k])

-----------------------------------------------------------------------------
(* Progress of the IR analysis pass.                                       *)

(* The main thread of the run takes its next step. *)
MainThreadStep ==
    \/ Start(1) \/ BuildJob(1) \/ MakeSemaphore(1) \/ Launch(1)
    \/ Get(1) \/ ParseAndCleanup(1)
    \/ Refine(1) \/ Gate(1) \/ Filter(1) \/ Emit(1)

(* The std::async thread of job j takes its next step: it gets a permit    *)
(* when one is free; the compiler it waits for goes on, and has exited or  *)
(* been killed when the 120 seconds of ExecuteAndWait are over.            *)
WorkerThreadStep(j) ==
    /\ j \in DOMAIN worker[1]
    /\ WorkerAcquire(1, j) \/ CompilerWrite(1, j) \/ WorkerFinish(1, j)

(* Every thread that can go on does so. *)
ThreadsScheduled ==
    /\ WF_vars(MainThreadStep)
    /\ \A j \in 1..MaxSrcs : WF_vars(WorkerThreadStep(j))

SpecLive == Init /\ [][MainNext]_vars /\ ThreadsScheduled

WorkerIn(j, states) == j \in DOMAIN worker[1] /\ worker[1][j] \in states

(* The permits of the semaphore: those left and those held add up to the   *)
(* initial count.                                                          *)
PermitsConserved ==
    pc[1] \in {"launch", "collect", "parse", "refine"} =>
        /\ sem[1] >= 0
        /\ sem[1] + Cardinality(Subprocesses(1)) = maxWorkers[1]

(* C29: every enqueued non-cached emission job eventually acquires a       *)
(* permit, ends, and releases its permit exactly once; no permit is lost   *)
(* and the collect loop terminates.                                        *)
EmissionJobsComplete ==
    /\ \A j \in 1..MaxSrcs :
          /\ WorkerIn(j, {"waiting"}) ~> WorkerIn(j, {"running"})
          /\ WorkerIn(j, {"running", "writing"}) ~> WorkerIn(j, {"done"})
          /\ [](WorkerIn(j, {"done"}) => [] WorkerIn(j, {"done"}))
    /\ [] PermitsConserved
    /\ [][\A j \in DOMAIN worker[1] :
             (worker[1][j] # "done" /\ worker'[1][j] = "done")
                 => sem'[1] = sem[1] + 1]_vars
    /\ (pc[1] = "collect") ~> (pc[1] = "refine" /\ sem[1] = maxWorkers[1])

(* C29 witness: the collect loop is over; a job whose emission was killed  *)
(* at the time limit and a second fresh job shared the single permit, and  *)
(* the permit is back.                                                     *)
CollectedWithOnePermit ==
    /\ pc[1] = "refine"
    /\ maxWorkers[1] = 1 /\ sem[1] = 1
    /\ Len(jobs[1]) = 2
    /\ \A j \in DOMAIN jobs[1] : ~jobs[1][j].cached /\ worker[1][j] = "done"
    /\ \E j \in DOMAIN jobs[1] : input.srcs[jobs[1][j].src].outcome = "timeout"

-----------------------------------------------------------------------------
(* Properties of ingest().                                                 *)

(* The refutation counts of all hazard classes but hc are unchanged. *)
OtherCountsUnchanged(hc) ==
    \A i \in DOMAIN falsePositiveRegistry_ :
        falsePositiveRegistry_[i].hazardClass # hc
            => /\ i \in DOMAIN falsePositiveRegistry_'
               /\ falsePositiveRegistry_'[i] = falsePositiveRegistry_[i]

CountOf(reg, hc) ==
    SeqSum([i \in DOMAIN reg |->
               IF reg[i].hazardClass = hc THEN reg[i].refutationCount ELSE 0])

(* C30: an ingest call raises the refutation count of a hazard class only  *)
(* for a result that passes schema validation, has verdict Refuted, power  *)
(* of at least 0.80 and label quality of at least 0.60, and then by one    *)
(* and for the class of the call only; a result that fails schema          *)
(* validation changes neither the records nor the registry.                *)
IngestCountsQualifiedRefutations ==
    [][\A res \in ResultPool, f \in FeaturePool, hc \in HazardPool :
          Ingest(res, f, hc) =>
              /\ OtherCountsUnchanged(hc)
              /\ CountOf(falsePositiveRegistry_', hc)
                    = CountOf(falsePositiveRegistry_, hc)
                      + (IF /\ validateSchema(res)
                            /\ res.verdict = "Refuted"
                            /\ res.power >= 80
                            /\ computeLabelQuality(res) >= 600000
                         THEN 1 ELSE 0)
              /\ ~validateSchema(res) => UNCHANGED storeVars]_vars

(* C30 witness: three results were ingested for one class, all refuted     *)
(* and schema-valid: one counted, one stopped by the power gate, one by    *)
(* the quality gate.                                                       *)
OneOfThreeRefutationsCounted ==
    /\ Len(records_) = 3
    /\ \A i \in DOMAIN records_ : records_[i].hazardClass = "AtomicOrdering"
    /\ records_[1].label = "Negative"
    /\ records_[2].label = "Unlabeled" /\ records_[2].labelQuality >= 600000
    /\ records_[3].label = "Unlabeled" /\ records_[3].labelQuality < 600000
    /\ CountOf(falsePositiveRegistry_, "AtomicOrdering") = 1

====
